---- MODULE Spec2Model ----
(***************************************************************************)
(* Actor engine of freeman: the state owner (AppActor / AppState), the     *)
(* I/O executor (NetworkActor), the streaming HTTP task and the WebSocket  *)
(* task, connected by the unbounded channels created in main.rs.           *)
(*                                                                         *)
(* Text is a sequence of one-character strings where its length or its     *)
(* JSON shape matters (chunk texts, bodies) and a sequence of fragments    *)
(* for fixed messages.  Option<T> is <<>> (None) or <<x>> (Some(x)).       *)
(* Wall-clock timestamps of log and history entries are left out, and so   *)
(* are the request's fields other than the method and the URL; the Url     *)
(* panel stays the active one.                                             *)
(***************************************************************************)
EXTENDS Integers, Sequences, FiniteSets, TLC

\* ------------------------------------------------------------------ bounds
MaxId == 2          \* ids the state owner may mint in one run
MaxChunks == 2      \* chunks the network delivers on one response stream
MaxFrames == 1      \* inbound frames the network delivers on one socket
MaxLog == 3         \* WebSocket log length beyond which the user stops
MaxInput == 1       \* characters the user types into the WebSocket input
MaxCmdQueue == 1    \* commands waiting in the command channel
MaxTyped == 1       \* characters the user adds to the request URL
MaxSends == 1       \* messages written to one WebSocket session
MaxDeleted == 1     \* characters of the URL beyond which the user deletes none
MaxLeft == 2        \* places from the end of the URL beyond which the cursor stays
MaxHeaders == 3     \* headers of the request beyond which the user adds none
MaxOutbound == 2    \* messages sent to one session when only sessions run

\* ------------------------------------------------------- program constants
MAX_HISTORY == 50
DEFAULT_WS_URL == <<"wss://echo.websocket.org">>
DEFAULT_HTTP_URL ==
    <<"h", "t", "t", "p", "s", ":", "/", "/", "h", "t", "t", "p",
      "b", "i", "n", ".", "o", "r", "g", "/", "g", "e", "t">>
INITIAL_CURSOR == 24

None == <<>>
Some(x) == <<x>>
IsSome(o) == o # <<>>
Unwrap(o) == o[1]

Ids == 1..MaxId

\* ----------------------------------------------------------------- values
\* Header::new
Header_new(key, value) == [key |-> key, value |-> value, enabled |-> TRUE]

Request_default ==
    [method |-> "GET",
     url |-> DEFAULT_HTTP_URL,
     headers |->
        << Header_new(<<"Content-Type">>, <<"application/json">>),
           Header_new(<<"Accept">>, <<"application/json">>) >>,
     body |-> <<>>,
     auth |-> "None"]

Response_default == [status_code |-> None, body |-> <<"Quick Reference">>, time_ms |-> 0]

WebSocketState_default ==
    [url |-> DEFAULT_WS_URL, url_cursor |-> 0, editing_url |-> FALSE, connected |-> FALSE,
     connection_id |-> None, messages |-> <<>>, input |-> <<>>,
     cursor_position |-> 0]

\* what the network can answer
Statuses == {200}
Elapsed == {7}
WsChars == {"h"}
UrlChars == {"x"}
\* what the user types into the cURL import popup, and its characters
CurlLines == { <<"-", "H", " ", "A", ":", "b">> }
CurlChars == {"-", "H", " ", "A", ":", "b"}
TextChunks == { <<"a", "b">>, <<"1", " ">> }
\* a chunk of the byte stream: its length and, when it is valid UTF-8, its text
NetChunks == { [len |-> Len(t), text |-> Some(t)] : t \in TextChunks }
                 \cup { [len |-> 1, text |-> None] }

\* ------------------------------------------------------------ text helpers
RECURSIVE StripLeft(_)
StripLeft(t) == IF t # <<>> /\ Head(t) = " " THEN StripLeft(Tail(t)) ELSE t

RECURSIVE StripRight(_)
StripRight(t) ==
    IF t # <<>> /\ t[Len(t)] = " " THEN StripRight(SubSeq(t, 1, Len(t) - 1)) ELSE t

\* serde_json::from_str over the alphabet of TextChunks: optional white
\* space, one number made of the digit 1, optional white space
IsJson(t) ==
    LET core == StripRight(StripLeft(t))
    IN  core # <<>> /\ \A k \in 1..Len(core) : core[k] = "1"

\* serde_json::to_string_pretty of the parsed value, else the raw text
FormatJson(t) == IF IsJson(t) THEN StripRight(StripLeft(t)) ELSE t

InsertAt(t, pos, c) == SubSeq(t, 1, pos) \o <<c>> \o SubSeq(t, pos + 1, Len(t))

\* -------------------------------------------------------------- messages
\* NetworkCommand
ExecuteRequest(id, request) ==
    [kind |-> "ExecuteRequest", id |-> id, request |-> request]
ExecuteStreamingRequest(id, request) ==
    [kind |-> "ExecuteStreamingRequest", id |-> id, request |-> request]
CancelRequest(id) == [kind |-> "CancelRequest", id |-> id]
ConnectWebSocket(id, url) == [kind |-> "ConnectWebSocket", id |-> id, url |-> url]
SendWebSocketMessage(id, message) ==
    [kind |-> "SendWebSocketMessage", id |-> id, message |-> message]
CloseWebSocket(id) == [kind |-> "CloseWebSocket", id |-> id]
\* variant: the command sent on Quit is a cancel
Shutdown_as_cancel == [kind |-> "CancelRequest", id |-> 0]

Shutdown == [kind |-> "Shutdown", id |-> 0]

\* the commands that carry a freshly minted id
MintingKinds == {"ExecuteRequest", "ExecuteStreamingRequest", "ConnectWebSocket"}

\* NetworkResponse
Success(id, status, body, time_ms) ==
    [kind |-> "Success", id |-> id, status |-> status, body |-> body, time_ms |-> time_ms]
StreamChunk(id, chunk, bytes_received) ==
    [kind |-> "StreamChunk", id |-> id, chunk |-> chunk, bytes_received |-> bytes_received]
StreamComplete(id, status, total_bytes, time_ms) ==
    [kind |-> "StreamComplete", id |-> id, status |-> status,
     total_bytes |-> total_bytes, time_ms |-> time_ms]
Error(id, message, time_ms) ==
    [kind |-> "Error", id |-> id, message |-> message, time_ms |-> time_ms]
Cancelled(id) == [kind |-> "Cancelled", id |-> id]
WebSocketConnected(id) == [kind |-> "WebSocketConnected", id |-> id]
WebSocketMessage(id, message) ==
    [kind |-> "WebSocketMessage", id |-> id, message |-> message]
WebSocketClosed(id) == [kind |-> "WebSocketClosed", id |-> id]
WebSocketError(id, error) == [kind |-> "WebSocketError", id |-> id, error |-> error]

\* NetworkResponse::id
NetworkResponse_id(r) ==
    CASE r.kind = "Success" -> r.id
      [] r.kind = "StreamChunk" -> r.id
      [] r.kind = "StreamComplete" -> r.id
      [] r.kind = "Error" -> r.id
      [] r.kind = "Cancelled" -> r.id
      [] r.kind = "WebSocketConnected" -> r.id
      [] r.kind = "WebSocketMessage" -> r.id
      [] r.kind = "WebSocketClosed" -> r.id
      [] r.kind = "WebSocketError" -> r.id

\* variant: a cancellation is not counted as terminal
is_terminal_without_Cancelled(r) ==
    r.kind \in {"Success", "StreamComplete", "Error", "WebSocketClosed", "WebSocketError"}

\* NetworkResponse::is_terminal
is_terminal(r) ==
    r.kind \in {"Success", "StreamComplete", "Error", "Cancelled",
                "WebSocketClosed", "WebSocketError"}

HttpKinds == {"Success", "StreamChunk", "StreamComplete", "Error", "Cancelled"}
TerminalHistoryKinds == {"Success", "StreamComplete", "Error"}

WsLogEntry(direction, content) == [direction |-> direction, content |-> content]

HistoryEntry(request, response) == [request |-> request, response |-> response]

\* -------------------------------------------------------------- variables
VARIABLES
    state,      \* AppActor.state : AppState
    last,       \* the item the AppActor loop received last: whether it sent a command
                \* (an event) or matched a pending or tracked id (a response), and
                \* whether it repeats the accepted response received just before
    cmd_q,      \* network command channel (net_cmd_tx -> net_cmd_rx)
    resp_q,     \* network response channel (net_resp_tx -> net_resp_rx)
    net,        \* NetworkActor: cancel_handles and websockets (their key sets),
                \* and whether run has left its loop
    net_last,   \* the command the NetworkActor loop received last, and whether its id lookup hit
    cancel_rx,  \* per id, the oneshot receiver held by the task: "empty" or "sent"
    message_rx, \* per id, the outbound message channel of the WebSocket task
    http,       \* per id, the streaming task (execute_streaming_request)
    wst,        \* per id, the WebSocket task (connect_websocket)
    emitted,    \* per id, every response sent on response_tx so far, in order
    render_tx,  \* the snapshots the AppActor sent on render_tx in its latest loop turn
                \* (before the first turn: the initial snapshot)
    running     \* whether the AppActor loop is still running

vars == <<state, last, cmd_q, resp_q, net, net_last, cancel_rx, message_rx, http, wst, emitted,
          render_tx, running>>
appVars == <<state, last, render_tx, running>>
netVars == <<net, net_last, cancel_rx, message_rx, http, wst, emitted>>

\* ------------------------------------------------------------ AppState::new
AppState_new ==
    [input_mode |-> "Normal",
     request |-> Request_default,
     cursor_position |-> INITIAL_CURSOR,
     active_panel |-> "Url",
     response |-> Response_default,
     response_scroll |-> 0,
     is_loading |-> FALSE,
     next_request_id |-> 1,
     pending_request_id |-> None,
     streaming_body |-> <<>>,
     bytes_received |-> 0,
     selected_header |-> 0,
     auth_field |-> "Token",
     history |-> <<>>,
     history_index |-> None,
     show_curl_import |-> FALSE,
     curl_import_buffer |-> <<>>,
     ws |-> WebSocketState_default]

\* variant: the newest entry is dropped when the history is full
add_to_history_drops_newest(history, entry) ==
    LET kept == IF Len(history) >= MAX_HISTORY
                THEN Tail(history)
                ELSE history
    IN  <<entry>> \o kept

\* Storage::add_to_history: newest first, the oldest dropped when full
add_to_history(history, entry) ==
    LET kept == IF Len(history) >= MAX_HISTORY
                THEN SubSeq(history, 1, Len(history) - 1)
                ELSE history
    IN  <<entry>> \o kept

\* variant: the loading flag survives the finalisation
finalize_request_keeps_loading(s) ==
    [s EXCEPT !.pending_request_id = None,
              !.response_scroll = 0,
              !.streaming_body = <<>>,
              !.bytes_received = 0,
              !.history = add_to_history(s.history, HistoryEntry(s.request, s.response)),
              !.history_index = None]

\* variant: the pending id survives the finalisation
finalize_request_keeps_pending(s) ==
    [s EXCEPT !.is_loading = FALSE,
              !.response_scroll = 0,
              !.streaming_body = <<>>,
              !.bytes_received = 0,
              !.history = add_to_history(s.history, HistoryEntry(s.request, s.response)),
              !.history_index = None]

\* AppState::finalize_request, applied to a state whose response is set
finalize_request(s) ==
    [s EXCEPT !.is_loading = FALSE,
              !.pending_request_id = None,
              !.response_scroll = 0,
              !.streaming_body = <<>>,
              !.bytes_received = 0,
              !.history = add_to_history(s.history, HistoryEntry(s.request, s.response)),
              !.history_index = None]

\* variant: the loading flag survives a cancellation
handle_response_Cancelled_keeps_loading(s) ==
    [s EXCEPT !.response =
                  [status_code |-> None, body |-> <<"Request cancelled">>, time_ms |-> 0],
              !.pending_request_id = None,
              !.streaming_body = <<>>,
              !.bytes_received = 0]

\* AppState::handle_response, the Cancelled arm for the pending id
handle_response_Cancelled(s) ==
    [s EXCEPT !.response =
                  [status_code |-> None, body |-> <<"Request cancelled">>, time_ms |-> 0],
              !.is_loading = FALSE,
              !.pending_request_id = None,
              !.streaming_body = <<>>,
              !.bytes_received = 0]

\* variant: any response counts as the pending one while a request is pending
is_for_pending_any_id(s, id) == IsSome(s.pending_request_id)

\* the closure is_for_pending of handle_response
is_for_pending_id(s, id) == s.pending_request_id = Some(id)

\* variant: any WebSocket response is taken while a connection id is tracked
is_for_ws_any_id(s, id) == IsSome(s.ws.connection_id)

\* self.ws.connection_id == Some(id)
is_for_ws_id(s, id) == s.ws.connection_id = Some(id)

\* variant: the chunk replaces what was accumulated
push_str_overwrites(t, chunk) == chunk

\* String::push_str
push_str(t, chunk) == t \o chunk

\* AppState::handle_response
handle_response(s, r) ==
    LET is_for_pending == is_for_pending_id(s, NetworkResponse_id(r))
        is_for_ws == is_for_ws_id(s, r.id)
    IN
    CASE r.kind = "Success" ->
            IF is_for_pending
            THEN finalize_request([s EXCEPT !.response =
                     [status_code |-> Some(r.status), body |-> r.body, time_ms |-> r.time_ms]])
            ELSE s
      [] r.kind = "StreamChunk" ->
            IF is_for_pending
            THEN LET acc == push_str(s.streaming_body, r.chunk)
                 IN  [s EXCEPT !.streaming_body = acc,
                               !.bytes_received = r.bytes_received,
                               !.response.body =
                                   <<"Streaming... ", ToString(r.bytes_received),
                                     " bytes received\n\n">> \o acc]
            ELSE s
      [] r.kind = "StreamComplete" ->
            IF is_for_pending
            THEN finalize_request([s EXCEPT !.response =
                     [status_code |-> Some(r.status),
                      body |-> FormatJson(s.streaming_body),
                      time_ms |-> r.time_ms],
                     !.bytes_received = r.total_bytes])
            ELSE s
      [] r.kind = "Error" ->
            IF is_for_pending
            THEN finalize_request([s EXCEPT !.response =
                     [status_code |-> None, body |-> r.message, time_ms |-> r.time_ms]])
            ELSE s
      [] r.kind = "Cancelled" ->
            IF is_for_pending
            THEN handle_response_Cancelled(s)
            ELSE s
      [] r.kind = "WebSocketConnected" ->
            IF is_for_ws
            THEN [s EXCEPT !.ws.connected = TRUE,
                           !.ws.messages = Append(@, WsLogEntry("System", <<"Connected!">>))]
            ELSE s
      [] r.kind = "WebSocketMessage" ->
            IF is_for_ws
            THEN [s EXCEPT !.ws.messages = Append(@, WsLogEntry("Received", r.message))]
            ELSE s
      [] r.kind = "WebSocketClosed" ->
            IF is_for_ws
            THEN [s EXCEPT !.ws.connected = FALSE,
                           !.ws.connection_id = None,
                           !.ws.messages = Append(@, WsLogEntry("System", <<"Connection closed">>))]
            ELSE s
      [] r.kind = "WebSocketError" ->
            IF is_for_ws
            THEN [s EXCEPT !.ws.connected = FALSE,
                           !.ws.connection_id = None,
                           !.ws.messages = Append(@, WsLogEntry("System", <<"Error: ">> \o r.error))]
            ELSE s

\* variant: the snapshot always shows the request as idle
to_render_state_never_loading(s) ==
    [method |-> s.request.method,
     url |-> s.request.url,
     body |-> s.request.body,
     headers |-> s.request.headers,
     auth |-> s.request.auth,
     active_panel |-> s.active_panel,
     input_mode |-> s.input_mode,
     cursor_position |-> s.cursor_position,
     response |-> s.response,
     response_scroll |-> s.response_scroll,
     is_loading |-> FALSE,
     selected_header |-> s.selected_header,
     auth_field |-> s.auth_field,
     history_index |-> s.history_index,
     show_curl_import |-> s.show_curl_import,
     curl_import_buffer |-> s.curl_import_buffer,
     ws_url |-> s.ws.url,
     ws_url_cursor |-> s.ws.url_cursor,
     ws_editing_url |-> s.ws.editing_url,
     ws_connected |-> s.ws.connected,
     ws_messages |-> s.ws.messages,
     ws_input |-> s.ws.input,
     ws_input_cursor |-> s.ws.cursor_position]

\* AppState::to_render_state, over the fields of the model
to_render_state(s) ==
    [method |-> s.request.method,
     url |-> s.request.url,
     body |-> s.request.body,
     headers |-> s.request.headers,
     auth |-> s.request.auth,
     active_panel |-> s.active_panel,
     input_mode |-> s.input_mode,
     cursor_position |-> s.cursor_position,
     response |-> s.response,
     response_scroll |-> s.response_scroll,
     is_loading |-> s.is_loading,
     selected_header |-> s.selected_header,
     auth_field |-> s.auth_field,
     history_index |-> s.history_index,
     show_curl_import |-> s.show_curl_import,
     curl_import_buffer |-> s.curl_import_buffer,
     ws_url |-> s.ws.url,
     ws_url_cursor |-> s.ws.url_cursor,
     ws_editing_url |-> s.ws.editing_url,
     ws_connected |-> s.ws.connected,
     ws_messages |-> s.ws.messages,
     ws_input |-> s.ws.input,
     ws_input_cursor |-> s.ws.cursor_position]

\* ------------------------------------------------------- AppState commands
\* variant: the counter is read but not advanced
next_id_not_advanced(s) == [id |-> s.next_request_id, state |-> s]

\* AppState::next_id: the id minted and the state with the counter advanced
next_id(s) == [id |-> s.next_request_id,
               state |-> [s EXCEPT !.next_request_id = @ + 1]]

stop_editing(s) == [s EXCEPT !.input_mode = "Normal"]

\* what handling one event yields: the state, the command to send,
\* whether handle_ui_event returned true, and whether it panicked instead
Out(s, cmd) == [state |-> s, cmd |-> cmd, quit |-> FALSE, panic |-> FALSE]

\* an index or a slice out of range: the thread of the state owner unwinds
Panicked(s) == [state |-> s, cmd |-> None, quit |-> FALSE, panic |-> TRUE]

\* Panel::next and Panel::prev
Panel_next(p) ==
    CASE p = "Url" -> "Body" [] p = "Body" -> "Headers" [] p = "Headers" -> "Auth"
      [] p = "Auth" -> "Response" [] p = "Response" -> "Workspace"
      [] p = "Workspace" -> "Url"

Panel_prev(p) ==
    CASE p = "Url" -> "Workspace" [] p = "Body" -> "Url" [] p = "Headers" -> "Body"
      [] p = "Auth" -> "Headers" [] p = "Response" -> "Auth"
      [] p = "Workspace" -> "Response"

next_panel(s) == [s EXCEPT !.active_panel = Panel_next(@)]

prev_panel(s) == [s EXCEPT !.active_panel = Panel_prev(@)]

\* AppState::current_input; the request's auth is AuthType::None throughout
current_input(s) ==
    CASE s.active_panel = "Url" -> s.request.url
      [] s.active_panel = "Body" -> s.request.body
      [] OTHER -> <<>>

\* AppState::current_input_mut: the field it borrows, the URL as a fallback
current_input_mut(s) ==
    CASE s.active_panel = "Url" -> "url"
      [] s.active_panel = "Body" -> "body"
      [] OTHER -> "url"

start_editing(s) ==
    [s EXCEPT !.input_mode = "Editing", !.cursor_position = Len(current_input(s))]

\* String::remove at a 0-based index below the length
String_remove(t, index) == SubSeq(t, 1, index) \o SubSeq(t, index + 2, Len(t))

\* AppState::move_cursor_left; input[..cursor_position] panics past the end
move_cursor_left(s) ==
    IF s.cursor_position > 0
    THEN IF s.cursor_position > Len(current_input(s))
         THEN Panicked(s)
         ELSE Out([s EXCEPT !.cursor_position = @ - 1], None)
    ELSE Out(s, None)

\* AppState::move_cursor_right
move_cursor_right(s) ==
    IF s.cursor_position < Len(current_input(s))
    THEN [s EXCEPT !.cursor_position = @ + 1]
    ELSE s

\* AppState::enter_char
enter_char(s, c) ==
    LET field == current_input_mut(s)
    IN  IF s.cursor_position <= Len(s.request[field])
        THEN [s EXCEPT !.request[field] = InsertAt(@, s.cursor_position, c),
                       !.cursor_position = @ + 1]
        ELSE s

\* AppState::delete_char; input[..cursor_pos] panics past the end
delete_char(s) ==
    LET field == current_input_mut(s)
    IN  IF s.cursor_position > 0
        THEN IF s.cursor_position > Len(s.request[field])
             THEN Panicked(s)
             ELSE Out([s EXCEPT !.request[field] = String_remove(@, s.cursor_position - 1),
                                !.cursor_position = @ - 1],
                      None)
        ELSE Out(s, None)

\* ------------------------------------------------------------------ headers
next_header(s) ==
    IF s.request.headers # <<>>
    THEN [s EXCEPT !.selected_header = (@ + 1) % Len(s.request.headers)]
    ELSE s

\* checked_sub(1), or the last index when the subtraction underflows
prev_header(s) ==
    IF s.request.headers # <<>>
    THEN [s EXCEPT !.selected_header =
                       IF @ = 0 THEN Len(s.request.headers) - 1 ELSE @ - 1]
    ELSE s

add_header(s) ==
    LET hs == Append(s.request.headers,
                     Header_new(<<"X-Custom">>, <<"value">>))
    IN  [s EXCEPT !.request.headers = hs,
                  !.selected_header = Len(hs) - 1]

\* Vec::remove at a 0-based index below the length
Vec_remove(v, index) == SubSeq(v, 1, index) \o SubSeq(v, index + 2, Len(v))

\* AppState::delete_header; Vec::remove panics when index >= len
delete_header(s) ==
    IF s.request.headers # <<>>
    THEN IF s.selected_header >= Len(s.request.headers)
         THEN Panicked(s)
         ELSE Out([s EXCEPT !.request.headers = Vec_remove(@, s.selected_header),
                            !.selected_header = IF @ > 0 THEN @ - 1 ELSE @],
                  None)
    ELSE Out(s, None)

\* ------------------------------------------------------------------ history
\* Storage::history_len
history_len(s) == Len(s.history)

\* Storage::get_history, 0-based
get_history(s, idx) == IF idx < Len(s.history) THEN Some(s.history[idx + 1]) ELSE None

history_prev(s) ==
    IF history_len(s) = 0
    THEN s
    ELSE LET idx == IF s.history_index = None THEN 0
                    ELSE IF Unwrap(s.history_index) + 1 < history_len(s)
                         THEN Unwrap(s.history_index) + 1
                         ELSE Unwrap(s.history_index)
             entry == get_history(s, idx)
         IN  IF IsSome(entry)
             THEN [s EXCEPT !.request = Unwrap(entry).request,
                            !.history_index = Some(idx),
                            !.cursor_position = Len(Unwrap(entry).request.url)]
             ELSE s

history_next(s) ==
    IF IsSome(s.history_index)
    THEN LET idx == Unwrap(s.history_index)
         IN  IF idx > 0
             THEN LET entry == get_history(s, idx - 1)
                  IN  IF IsSome(entry)
                      THEN [s EXCEPT !.request = Unwrap(entry).request,
                                     !.history_index = Some(idx - 1),
                                     !.cursor_position = Len(Unwrap(entry).request.url)]
                      ELSE s
             ELSE [s EXCEPT !.request = Request_default,
                            !.history_index = None,
                            !.cursor_position = Len(Request_default.url)]
    ELSE s

\* -------------------------------------------------------------- cURL import
\* curl::tokenize over text without quotes or backslashes: split at spaces
RECURSIVE tokenize_from(_, _, _)
tokenize_from(input, current, tokens) ==
    IF input = <<>>
    THEN IF current # <<>> THEN Append(tokens, current) ELSE tokens
    ELSE IF Head(input) = " "
         THEN tokenize_from(Tail(input), <<>>,
                            IF current # <<>> THEN Append(tokens, current) ELSE tokens)
         ELSE tokenize_from(Tail(input), Append(current, Head(input)), tokens)

tokenize(input) == tokenize_from(input, <<>>, <<>>)

\* the index of the first ':' of the text, 0 when it has none
RECURSIVE find_colon(_, _)
find_colon(t, k) ==
    IF k > Len(t) THEN 0 ELSE IF t[k] = ":" THEN k ELSE find_colon(t, k + 1)

\* curl::parse_header: splitn(2, ':'), both parts trimmed
parse_header(t) ==
    LET k == find_colon(t, 1)
    IN  IF k = 0
        THEN [ok |-> FALSE]
        ELSE [ok |-> TRUE,
              header |-> Header_new(StripRight(StripLeft(SubSeq(t, 1, k - 1))),
                                    StripRight(StripLeft(SubSeq(t, k + 1, Len(t)))))]

\* to_lowercase over the pieces of text of the model
LowerChar(c) ==
    CASE c = "A" -> "a" [] c = "H" -> "h"
      [] c = "Content-Type" -> "content-type"
      [] c = "Accept" -> "accept"
      [] c = "X-Custom" -> "x-custom"
      [] OTHER -> c

to_lowercase(t) == [k \in 1..Len(t) |-> LowerChar(t[k])]

starts_with(t, prefix) ==
    Len(t) >= Len(prefix) /\ SubSeq(t, 1, Len(prefix)) = prefix

\* the loop of curl::parse_curl from token i on, over its -H and URL arms
RECURSIVE parse_curl_from(_, _, _)
parse_curl_from(tokens, i, request) ==
    IF i > Len(tokens)
    THEN [ok |-> TRUE, request |-> request]
    ELSE LET token == tokens[i]
         IN  IF token = <<"-", "H">>
             THEN IF i + 1 <= Len(tokens)
                  THEN LET h == parse_header(tokens[i + 1])
                       IN  IF ~h.ok
                           THEN [ok |-> FALSE, request |-> request]
                           ELSE parse_curl_from(tokens, i + 2,
                                  IF \E k \in 1..Len(request.headers) :
                                        to_lowercase(request.headers[k].key)
                                            = to_lowercase(h.header.key)
                                  THEN request
                                  ELSE [request EXCEPT !.headers = Append(@, h.header)])
                  ELSE parse_curl_from(tokens, i + 1, request)
             ELSE IF /\ Head(token) # "-"
                     /\ \/ starts_with(token, <<"h","t","t","p",":","/","/">>)
                        \/ starts_with(token, <<"h","t","t","p","s",":","/","/">>)
                  THEN parse_curl_from(tokens, i + 1, [request EXCEPT !.url = token])
                  ELSE parse_curl_from(tokens, i + 1, request)

\* curl::parse_curl: Request::default() changed by the tokens after "curl"
parse_curl(input) ==
    LET all == tokenize(input)
        tokens == IF all # <<>> /\ Head(all) = <<"c","u","r","l">> THEN Tail(all) ELSE all
    IN  parse_curl_from(tokens, 1, Request_default)

show_curl_import(s) == [s EXCEPT !.show_curl_import = TRUE]

curl_import_char(s, c) == [s EXCEPT !.curl_import_buffer = Append(@, c)]

\* String::pop
curl_import_backspace(s) ==
    [s EXCEPT !.curl_import_buffer = IF @ = <<>> THEN @ ELSE SubSeq(@, 1, Len(@) - 1)]

import_curl(s) ==
    LET parsed == parse_curl(s.curl_import_buffer)
        s1 == IF parsed.ok
              THEN [s EXCEPT !.request = parsed.request,
                             !.cursor_position = Len(parsed.request.url)]
              ELSE s
    IN  [s1 EXCEPT !.curl_import_buffer = <<>>,
                   !.show_curl_import = FALSE]

cancel_curl_import(s) ==
    [s EXCEPT !.curl_import_buffer = <<>>,
              !.show_curl_import = FALSE]

\* variant: no is_loading guard
prepare_streaming_request_unguarded(s) ==
    LET s1 == [s EXCEPT !.is_loading = TRUE,
                        !.response.body = <<"Starting request...">>,
                        !.response.status_code = None,
                        !.streaming_body = <<>>,
                        !.bytes_received = 0]
        m == next_id(s1)
    IN  Out([m.state EXCEPT !.pending_request_id = Some(m.id)],
            Some(ExecuteStreamingRequest(m.id, s.request)))

prepare_streaming_request(s) ==
    IF s.is_loading
    THEN Out(s, None)
    ELSE LET s1 == [s EXCEPT !.is_loading = TRUE,
                             !.response.body = <<"Starting request...">>,
                             !.response.status_code = None,
                             !.streaming_body = <<>>,
                             !.bytes_received = 0]
             m == next_id(s1)
         IN  Out([m.state EXCEPT !.pending_request_id = Some(m.id)],
                 Some(ExecuteStreamingRequest(m.id, s.request)))

\* variant: with nothing pending, the id minted last is cancelled
cancel_request_last_minted(s) ==
    IF IsSome(s.pending_request_id)
    THEN Out(s, Some(CancelRequest(Unwrap(s.pending_request_id))))
    ELSE IF s.next_request_id > 1
         THEN Out(s, Some(CancelRequest(s.next_request_id - 1)))
         ELSE Out(s, None)

cancel_request(s) ==
    IF IsSome(s.pending_request_id)
    THEN Out(s, Some(CancelRequest(Unwrap(s.pending_request_id))))
    ELSE Out(s, None)

\* variant: the session takes the counter's value without advancing it
ws_connect_id_not_minted(s) ==
    IF s.ws.connected
    THEN Out(s, None)
    ELSE Out([s EXCEPT
                 !.ws.connection_id = Some(s.next_request_id),
                 !.ws.messages = Append(@, WsLogEntry("System",
                                     <<"Connecting to ">> \o s.ws.url \o <<"...">>))],
             Some(ConnectWebSocket(s.next_request_id, s.ws.url)))

\* variant: the connected flag is not consulted
ws_connect_unguarded(s) ==
    LET m == next_id(s)
    IN  Out([m.state EXCEPT
                !.ws.connection_id = Some(m.id),
                !.ws.messages = Append(@, WsLogEntry("System",
                                    <<"Connecting to ">> \o s.ws.url \o <<"...">>))],
            Some(ConnectWebSocket(m.id, s.ws.url)))

ws_connect(s) ==
    IF s.ws.connected
    THEN Out(s, None)
    ELSE LET m == next_id(s)
         IN  Out([m.state EXCEPT
                     !.ws.connection_id = Some(m.id),
                     !.ws.messages = Append(@, WsLogEntry("System",
                                         <<"Connecting to ">> \o s.ws.url \o <<"...">>))],
                 Some(ConnectWebSocket(m.id, s.ws.url)))

\* variant: the tracked id is forgotten when the close is requested
ws_disconnect_forgets_id(s) ==
    IF IsSome(s.ws.connection_id)
    THEN Out([s EXCEPT !.ws.connection_id = None,
                       !.ws.messages = Append(@, WsLogEntry("System", <<"Disconnecting...">>))],
             Some(CloseWebSocket(Unwrap(s.ws.connection_id))))
    ELSE Out(s, None)

ws_disconnect(s) ==
    IF IsSome(s.ws.connection_id)
    THEN Out([s EXCEPT !.ws.messages = Append(@, WsLogEntry("System", <<"Disconnecting...">>))],
             Some(CloseWebSocket(Unwrap(s.ws.connection_id))))
    ELSE Out(s, None)

ws_send(s) ==
    IF ~s.ws.connected \/ s.ws.input = <<>>
    THEN Out(s, None)
    ELSE IF IsSome(s.ws.connection_id)
         THEN Out([s EXCEPT !.ws.messages = Append(@, WsLogEntry("Sent", s.ws.input)),
                            !.ws.input = <<>>,
                            !.ws.cursor_position = 0],
                  Some(SendWebSocketMessage(Unwrap(s.ws.connection_id), s.ws.input)))
         ELSE Out(s, None)

ws_char(s, c) ==
    IF s.ws.editing_url
    THEN [s EXCEPT !.ws.url = InsertAt(@, s.ws.url_cursor, c),
                   !.ws.url_cursor = @ + 1]
    ELSE [s EXCEPT !.ws.input = InsertAt(@, s.ws.cursor_position, c),
                   !.ws.cursor_position = @ + 1]

\* UiEvent values handled here
Ev(name) == [name |-> name]
EvChar(c) == [name |-> "WsCharInput", c |-> c]
EvUrlChar(c) == [name |-> "CharInput", c |-> c]

HttpEvents == {Ev("SendRequest"), Ev("CancelRequest")}
EditEvents == {Ev("StartEditing"), Ev("StopEditing")}
RequestEvents == {EvUrlChar(c) : c \in UrlChars}
PanelEvents == {Ev("NextPanel"), Ev("PrevPanel")}
CursorEvents == {Ev("Backspace"), Ev("CursorLeft"), Ev("CursorRight")}
EvCurlChar(c) == [name |-> "CurlImportChar", c |-> c]
HeaderEvents ==
    {Ev("NextHeader"), Ev("PrevHeader"), Ev("AddHeader"), Ev("DeleteHeader")}
HistoryEvents == {Ev("HistoryPrev"), Ev("HistoryNext")}
\* key_to_ui_event while the cURL import popup is shown
CurlEvents ==
    {Ev("CurlImportBackspace"), Ev("ImportCurl"), Ev("CancelCurlImport")}
        \cup {EvCurlChar(c) : c \in CurlChars}
WsEvents == {Ev("WsConnect"), Ev("WsDisconnect"), Ev("WsSend")} \cup {EvChar(c) : c \in WsChars}

\* AppActor::handle_ui_event: the new state and the command sent, if any
handle_ui_event(s, ev) ==
    CASE ev.name = "SendRequest" ->
            prepare_streaming_request(IF s.input_mode = "Editing" THEN stop_editing(s) ELSE s)
      [] ev.name = "CancelRequest" -> cancel_request(s)
      [] ev.name = "StartEditing" -> Out(start_editing(s), None)
      [] ev.name = "StopEditing" -> Out(stop_editing(s), None)
      [] ev.name = "CharInput" -> Out(enter_char(s, ev.c), None)
      [] ev.name = "Backspace" -> delete_char(s)
      [] ev.name = "CursorLeft" -> move_cursor_left(s)
      [] ev.name = "CursorRight" -> Out(move_cursor_right(s), None)
      [] ev.name = "NextPanel" -> Out(next_panel(s), None)
      [] ev.name = "PrevPanel" -> Out(prev_panel(s), None)
      [] ev.name = "NextHeader" -> Out(next_header(s), None)
      [] ev.name = "PrevHeader" -> Out(prev_header(s), None)
      [] ev.name = "AddHeader" -> Out(add_header(s), None)
      [] ev.name = "DeleteHeader" -> delete_header(s)
      [] ev.name = "HistoryPrev" -> Out(history_prev(s), None)
      [] ev.name = "HistoryNext" -> Out(history_next(s), None)
      [] ev.name = "ShowCurlImport" -> Out(show_curl_import(s), None)
      [] ev.name = "CurlImportChar" -> Out(curl_import_char(s, ev.c), None)
      [] ev.name = "CurlImportBackspace" -> Out(curl_import_backspace(s), None)
      [] ev.name = "ImportCurl" -> Out(import_curl(s), None)
      [] ev.name = "CancelCurlImport" -> Out(cancel_curl_import(s), None)
      [] ev.name = "WsConnect" -> ws_connect(s)
      [] ev.name = "WsDisconnect" -> ws_disconnect(s)
      [] ev.name = "WsSend" -> ws_send(s)
      [] ev.name = "WsCharInput" -> Out(ws_char(s, ev.c), None)
      [] ev.name = "Quit" -> [state |-> s, cmd |-> None, quit |-> TRUE, panic |-> FALSE]

\* how many of the characters of the text the user typed
TypedInto(t) == Cardinality({k \in 1..Len(t) : t[k] \in UrlChars})

\* the run stays inside the bounds: the user stops minting ids, typing
\* or filling the log and the command channel beyond them
WithinBounds(s, t, q) ==
    /\ t.next_request_id <= MaxId + 1
    /\ Len(q) <= MaxCmdQueue \/ q = cmd_q
    /\ Len(t.ws.messages) <= MaxLog \/ t.ws.messages = s.ws.messages
    /\ Len(t.ws.input) <= MaxInput
    /\ Len(t.request.url) <= Len(DEFAULT_HTTP_URL) + MaxTyped
    /\ TypedInto(t.request.url) <= MaxTyped
    /\ Len(t.request.url) - TypedInto(t.request.url) >= Len(DEFAULT_HTTP_URL) - MaxDeleted
    /\ Len(t.request.body) <= MaxTyped
    /\ ~(/\ t.cursor_position < s.cursor_position
         /\ t.cursor_position < Len(DEFAULT_HTTP_URL) - MaxLeft
         /\ t.active_panel = "Url")
    /\ Len(t.request.headers) <= MaxHeaders
    /\ \E line \in CurlLines : starts_with(line, t.curl_import_buffer)

\* AppActor::run, the ui_rx arm: one event applied, its command sent
AppUiEvent(evs, observed) ==
    \E ev \in evs :
        LET out == handle_ui_event(state, ev)
            q == IF out.quit THEN Append(cmd_q, Shutdown)
                 ELSE IF IsSome(out.cmd) THEN Append(cmd_q, Unwrap(out.cmd)) ELSE cmd_q
        IN  /\ running
            /\ WithinBounds(state, out.state, q)
            /\ state' = out.state
            /\ cmd_q' = q
            /\ running' = (~out.quit /\ ~out.panic)
            /\ render_tx' = IF out.quit \/ out.panic
                             THEN <<>> ELSE <<to_render_state(out.state)>>
            /\ last' = IF observed
                       THEN [src |-> "ui", kind |-> ev.name, id |-> 0,
                             hit |-> IsSome(out.cmd), again |-> FALSE]
                       ELSE last
            /\ UNCHANGED <<resp_q, netVars>>

\* whether handle_response finds the response's id pending or tracked
Matches(s, r) ==
    IF r.kind \in HttpKinds THEN s.pending_request_id = Some(r.id)
                            ELSE s.ws.connection_id = Some(r.id)

\* the body of the net_rx arm for one response
AppApply(r, observed) ==
    /\ last' = IF observed
               THEN [src |-> "net", kind |-> r.kind, id |-> r.id, hit |-> Matches(state, r),
                     again |-> last.src = "net" /\ last.kind = r.kind /\ last.id = r.id
                               /\ last.hit]
               ELSE last
    /\ state' = handle_response(state, r)
    /\ render_tx' = <<to_render_state(state')>>
    /\ UNCHANGED running

\* AppActor::run, the net_rx arm: the oldest response applied
AppNetResponse(observed) ==
    /\ running
    /\ resp_q # <<>>
    /\ AppApply(Head(resp_q), observed)
    /\ resp_q' = Tail(resp_q)
    /\ UNCHANGED <<cmd_q, netVars>>

\* ------------------------------------------------------------ NetworkActor
NoTask == [pc |-> "idle"]
\* a task that returned: its locals are gone
DoneTask == [pc |-> "done"]
\* a streaming task that returned from the cancel arm of its select!
CancelledTask == [pc |-> "cancelled"]

\* response_tx.send(r): queued for the state owner, and recorded per id
Send(q, r) == Append(q, r)
Record(em, r) == [em EXCEPT ![r.id] = Append(@, r)]

\* whether the command's id lookup finds its handle or session
NetHit(cmd) ==
    CASE cmd.kind = "CancelRequest" -> cmd.id \in net.cancel_handles
      [] cmd.kind \in {"SendWebSocketMessage", "CloseWebSocket"} -> cmd.id \in net.websockets
      [] OTHER -> TRUE

\* variant: every id is treated as a registered session
websockets_found_always(sessions, id) == TRUE

\* whether websockets.get(&id) or websockets.remove(&id) returns Some
websockets_found(sessions, id) == id \in sessions

\* variant: every CancelRequest is treated as a hit
cancel_handles_found_always(handles, id) == TRUE

\* whether cancel_handles.remove(&id) returns Some
cancel_handles_found(handles, id) == id \in handles

\* variant: the handle is looked up but stays in the map
cancel_handles_kept(handles, id) == handles

\* cancel_handles.remove(&id), on a hit
cancel_handles_remove(handles, id) == handles \ {id}

\* variant: only the cancel handles are drained
drain_signals_handles_only(n, rx) ==
    [i \in Ids |-> IF i \in n.cancel_handles THEN "sent" ELSE rx[i]]

\* the Shutdown arm: cancel_tx.send(()) for every drained handle and session
drain_signals(n, rx) ==
    [i \in Ids |-> IF i \in n.cancel_handles \cup n.websockets THEN "sent" ELSE rx[i]]

\* NetworkActor::run, the cmd_rx arm, one command; the loop has not been left
NetCommand(observed) ==
    /\ ~net.stopped
    /\ cmd_q # <<>>
    /\ LET cmd == Head(cmd_q)
           id == cmd.id
       IN
       /\ cmd_q' = Tail(cmd_q)
       /\ net_last' = IF observed THEN [kind |-> cmd.kind, id |-> id, hit |-> NetHit(cmd)]
                                  ELSE net_last
       /\ CASE cmd.kind = "ExecuteRequest" ->
                 /\ http' = [http EXCEPT ![id] = [pc |-> "req_send", status |-> 0]]
                 /\ UNCHANGED <<resp_q, net, cancel_rx, message_rx, wst, emitted>>
            [] cmd.kind = "Shutdown" ->
                 /\ cancel_rx' = drain_signals(net, cancel_rx)
                 /\ net' = [cancel_handles |-> {}, websockets |-> {}, stopped |-> TRUE]
                 /\ UNCHANGED <<resp_q, message_rx, http, wst, emitted>>
            [] cmd.kind = "ExecuteStreamingRequest" ->
                 /\ net' = [net EXCEPT !.cancel_handles = @ \cup {id}]
                 /\ cancel_rx' = [cancel_rx EXCEPT ![id] = "empty"]
                 /\ http' = [http EXCEPT ![id] =
                        [pc |-> "send", status |-> 0, total_bytes |-> 0, body |-> <<>>,
                         polled |-> 0, chunk |-> None]]
                 /\ UNCHANGED <<resp_q, message_rx, wst, emitted>>
            [] cmd.kind = "CancelRequest" ->
                 IF cancel_handles_found(net.cancel_handles, id)
                 THEN /\ net' = [net EXCEPT !.cancel_handles = cancel_handles_remove(@, id)]
                      /\ cancel_rx' = [cancel_rx EXCEPT ![id] = "sent"]
                      /\ resp_q' = Send(resp_q, Cancelled(id))
                      /\ emitted' = Record(emitted, Cancelled(id))
                      /\ UNCHANGED <<message_rx, http, wst>>
                 ELSE UNCHANGED <<resp_q, net, cancel_rx, message_rx, http, wst, emitted>>
            [] cmd.kind = "ConnectWebSocket" ->
                 /\ net' = [net EXCEPT !.websockets = @ \cup {id}]
                 /\ cancel_rx' = [cancel_rx EXCEPT ![id] = "empty"]
                 /\ message_rx' = [message_rx EXCEPT ![id] = <<>>]
                 /\ wst' = [wst EXCEPT ![id] =
                        [pc |-> "connect", frames |-> 0, msg |-> None, written |-> <<>>]]
                 /\ UNCHANGED <<resp_q, http, emitted>>
            [] cmd.kind = "SendWebSocketMessage" ->
                 IF websockets_found(net.websockets, id)
                 THEN /\ message_rx' = [message_rx EXCEPT ![id] = Append(@, cmd.message)]
                      /\ UNCHANGED <<resp_q, net, cancel_rx, http, wst, emitted>>
                 ELSE UNCHANGED <<resp_q, net, cancel_rx, message_rx, http, wst, emitted>>
            [] cmd.kind = "CloseWebSocket" ->
                 IF websockets_found(net.websockets, id)
                 THEN /\ net' = [net EXCEPT !.websockets = @ \ {id}]
                      /\ cancel_rx' = [cancel_rx EXCEPT ![id] = "sent"]
                      /\ UNCHANGED <<resp_q, message_rx, http, wst, emitted>>
                 ELSE UNCHANGED <<resp_q, net, cancel_rx, message_rx, http, wst, emitted>>
    /\ UNCHANGED appVars

\* ------------------------------------------------- execute_request task
\* execute_request returned and its response was sent
ReqDoneTask == [pc |-> "req_done"]

\* what resp.text() can read
Bodies == TextChunks

\* variant: a body that was read is passed on as a chunk
ReqTextResponses_as_chunk(i, status, t) ==
    {StreamChunk(i, b, Len(b)) : b \in Bodies}
        \cup {Error(i, <<"Error reading body: ", "e">>, t)}

\* what execute_request returns once the headers have arrived
ReqTextResponses(i, status, t) ==
    {Success(i, status, FormatJson(b), t) : b \in Bodies}
        \cup {Error(i, <<"Error reading body: ", "e">>, t)}

\* req_builder.send().await answers with a status
ReqSendOk(i) ==
    /\ http[i].pc = "req_send"
    /\ \E status \in Statuses :
          http' = [http EXCEPT ![i].pc = "req_text", ![i].status = status]
    /\ UNCHANGED <<appVars, cmd_q, resp_q, net, net_last, cancel_rx, message_rx, wst, emitted>>

\* req_builder.send().await fails: the task sends the Error it got back
ReqSendErr(i) ==
    /\ http[i].pc = "req_send"
    /\ \E t \in Elapsed :
          LET r == Error(i, <<"request failed">>, t)
          IN  /\ resp_q' = Send(resp_q, r)
              /\ emitted' = Record(emitted, r)
    /\ http' = [http EXCEPT ![i] = ReqDoneTask]
    /\ UNCHANGED <<appVars, cmd_q, net, net_last, cancel_rx, message_rx, wst>>

\* resp.text().await reads the whole body, or fails
ReqText(i) ==
    /\ http[i].pc = "req_text"
    /\ \E t \in Elapsed :
          \E r \in ReqTextResponses(i, http[i].status, t) :
              /\ resp_q' = Send(resp_q, r)
              /\ emitted' = Record(emitted, r)
    /\ http' = [http EXCEPT ![i] = ReqDoneTask]
    /\ UNCHANGED <<appVars, cmd_q, net, net_last, cancel_rx, message_rx, wst>>

\* ------------------------------------------- execute_streaming_request task
\* req_builder.send().await answers with a status: the chunk loop starts
StreamSendOk(i) ==
    /\ http[i].pc = "send"
    /\ \E status \in Statuses :
          http' = [http EXCEPT ![i].pc = "select", ![i].status = status]
    /\ UNCHANGED <<appVars, cmd_q, resp_q, net, net_last, cancel_rx, message_rx, wst, emitted>>

\* req_builder.send().await fails: one Error, the task ends
StreamSendErr(i) ==
    /\ http[i].pc = "send"
    /\ \E t \in Elapsed :
          LET r == Error(i, <<"request failed">>, t)
          IN  /\ resp_q' = Send(resp_q, r)
              /\ emitted' = Record(emitted, r)
    /\ http' = [http EXCEPT ![i] = DoneTask]
    /\ UNCHANGED <<appVars, cmd_q, net, net_last, cancel_rx, message_rx, wst>>

\* biased select!, first arm: the cancel receiver is ready, the task returns
StreamSelectCancel(i) ==
    /\ http[i].pc = "select"
    /\ cancel_rx[i] = "sent"
    /\ http' = [http EXCEPT ![i] = CancelledTask]
    /\ UNCHANGED <<appVars, cmd_q, resp_q, net, net_last, cancel_rx, message_rx, wst, emitted>>

\* what stream.next() can yield
StreamItems(polled) ==
    (IF polled < MaxChunks THEN {[item |-> "chunk", bytes |-> c] : c \in NetChunks} ELSE {})
        \cup {[item |-> "err"], [item |-> "end"]}

\* variant: the arms are polled without a preference
ChunkArmUnbiased(i) == TRUE

\* the cancel arm is polled first: the chunk arm runs only when it was pending
ChunkArmOpen(i) == cancel_rx[i] # "sent"

\* biased select!, second arm: stream.next() is ready and cancel_rx was not
StreamSelectChunk(i) ==
    /\ http[i].pc = "select"
    /\ ChunkArmOpen(i)
    /\ \E it \in StreamItems(http[i].polled) :
          http' = [http EXCEPT ![i].pc = "chunk", ![i].chunk = Some(it),
                               ![i].polled = @ + 1]
    /\ UNCHANGED <<appVars, cmd_q, resp_q, net, net_last, cancel_rx, message_rx, wst, emitted>>

\* the body of the chunk arm for Some(Ok(bytes)): the responses it sends
ChunkResponses(i, task, bytes) ==
    IF IsSome(bytes.text)
    THEN <<StreamChunk(i, Unwrap(bytes.text), task.total_bytes + bytes.len)>>
    ELSE <<>>

\* variant: the end of the stream is answered by one more chunk
EndResponse_not_terminal(i, task, t) == StreamChunk(i, <<>>, task.total_bytes)

\* the body of the chunk arm for None: the terminal response
EndResponse(i, task, t) == Success(i, task.status, FormatJson(task.body), t)

\* the body of the chunk arm, run to its end
StreamHandle(i) ==
    /\ http[i].pc = "chunk"
    /\ LET task == http[i]
           it == Unwrap(task.chunk)
       IN  CASE it.item = "chunk" ->
                  LET out == ChunkResponses(i, task, it.bytes)
                  IN  /\ http' = [http EXCEPT
                             ![i].pc = "select",
                             ![i].chunk = None,
                             ![i].total_bytes = @ + it.bytes.len,
                             ![i].body = IF IsSome(it.bytes.text)
                                         THEN @ \o Unwrap(it.bytes.text) ELSE @]
                      /\ resp_q' = resp_q \o out
                      /\ emitted' = [emitted EXCEPT ![i] = @ \o out]
             [] it.item = "err" ->
                  \E t \in Elapsed :
                      LET r == Error(i, <<"Stream error: ", "e">>, t)
                      IN  /\ http' = [http EXCEPT ![i] = DoneTask]
                          /\ resp_q' = Send(resp_q, r)
                          /\ emitted' = Record(emitted, r)
             [] it.item = "end" ->
                  \E t \in Elapsed :
                      LET r == EndResponse(i, task, t)
                      IN  /\ http' = [http EXCEPT ![i] = DoneTask]
                          /\ resp_q' = Send(resp_q, r)
                          /\ emitted' = Record(emitted, r)
    /\ UNCHANGED <<appVars, cmd_q, net, net_last, cancel_rx, message_rx, wst>>

\* ------------------------------------------------- connect_websocket task
TextFrames == { <<"o", "k">> }
BinaryFrames == { <<10, 255>> }

HexDigit(n) == <<"0","1","2","3","4","5","6","7","8","9","a","b","c","d","e","f">>[n + 1]

\* format!("{:02x}", b)
Hex2(b) == <<HexDigit(b \div 16), HexDigit(b % 16)>>

\* the bytes as two-digit hex numbers joined by one space
RECURSIVE HexJoin(_)
HexJoin(data) ==
    IF data = <<>> THEN <<>>
    ELSE IF Len(data) = 1 THEN Hex2(data[1])
    ELSE Hex2(data[1]) \o <<" ">> \o HexJoin(Tail(data))

\* what read.next() can yield
WsFrames(frames) ==
    (IF frames < MaxFrames
     THEN {[frame |-> "Text", text |-> t] : t \in TextFrames}
            \cup {[frame |-> "Binary", data |-> d] : d \in BinaryFrames}
            \cup {[frame |-> "Ping"], [frame |-> "Pong"], [frame |-> "Frame"]}
     ELSE {})
        \cup {[frame |-> "Close", reason |-> None],
              [frame |-> "Close", reason |-> Some(<<"1000", ": ", "bye">>)],
              [frame |-> "Err"], [frame |-> "End"]}

\* variant: the loop goes on after a Close frame
FrameEnds_close_continues(f) == f.frame \in {"Err", "End"}

\* variant: a text frame is read and not forwarded
FrameResponses_close_reversed(i, f) ==
    CASE f.frame = "Text" -> <<WebSocketMessage(i, f.text)>>
      [] f.frame = "Binary" ->
            <<WebSocketMessage(i, <<"[Binary: ", ToString(Len(f.data)), " bytes]\n">>
                                      \o HexJoin(f.data))>>
      [] f.frame = "Close" ->
            <<WebSocketClosed(i),
              WebSocketMessage(i, <<"[Closed: ">>
                                      \o (IF IsSome(f.reason) THEN Unwrap(f.reason)
                                          ELSE <<"Connection closed">>)
                                      \o <<"]">>)>>
      [] f.frame = "Err" -> <<WebSocketError(i, <<"Receive error: ", "e">>)>>
      [] f.frame = "End" -> <<WebSocketClosed(i)>>
      [] OTHER -> <<>>

FrameResponses_text_dropped(i, f) ==
    CASE f.frame = "Binary" ->
            <<WebSocketMessage(i, <<"[Binary: ", ToString(Len(f.data)), " bytes]\n">>
                                      \o HexJoin(f.data))>>
      [] f.frame = "Close" ->
            <<WebSocketMessage(i, <<"[Closed: ">>
                                      \o (IF IsSome(f.reason) THEN Unwrap(f.reason)
                                          ELSE <<"Connection closed">>)
                                      \o <<"]">>),
              WebSocketClosed(i)>>
      [] f.frame = "Err" -> <<WebSocketError(i, <<"Receive error: ", "e">>)>>
      [] f.frame = "End" -> <<WebSocketClosed(i)>>
      [] OTHER -> <<>>

\* the responses the read arm sends for one frame
FrameResponses(i, f) ==
    CASE f.frame = "Text" -> <<WebSocketMessage(i, f.text)>>
      [] f.frame = "Binary" ->
            <<WebSocketMessage(i, <<"[Binary: ", ToString(Len(f.data)), " bytes]\n">>
                                      \o HexJoin(f.data))>>
      [] f.frame = "Close" ->
            <<WebSocketMessage(i, <<"[Closed: ">>
                                      \o (IF IsSome(f.reason) THEN Unwrap(f.reason)
                                          ELSE <<"Connection closed">>)
                                      \o <<"]">>),
              WebSocketClosed(i)>>
      [] f.frame = "Err" -> <<WebSocketError(i, <<"Receive error: ", "e">>)>>
      [] f.frame = "End" -> <<WebSocketClosed(i)>>
      [] OTHER -> <<>>

\* the frames after which the task returns
FrameEnds(f) == f.frame \in {"Close", "Err", "End"}

\* connect_async succeeds: WebSocketConnected, then the duplex loop
WsHandshakeOk(i) ==
    /\ wst[i].pc = "connect"
    /\ wst' = [wst EXCEPT ![i].pc = "select"]
    /\ resp_q' = Send(resp_q, WebSocketConnected(i))
    /\ emitted' = Record(emitted, WebSocketConnected(i))
    /\ UNCHANGED <<appVars, cmd_q, net, net_last, cancel_rx, message_rx, http>>

HandshakeErrTask_continues(t) == [t EXCEPT !.pc = "select"]

\* the Err arm of connect_async returns from the task
HandshakeErrTask(t) == DoneTask

\* connect_async fails: one WebSocketError, the task ends
WsHandshakeErr(i) ==
    /\ wst[i].pc = "connect"
    /\ wst' = [wst EXCEPT ![i] = HandshakeErrTask(wst[i])]
    /\ LET r == WebSocketError(i, <<"Connection failed: ", "e">>)
       IN  /\ resp_q' = Send(resp_q, r)
           /\ emitted' = Record(emitted, r)
    /\ UNCHANGED <<appVars, cmd_q, net, net_last, cancel_rx, message_rx, http>>

WsSelectCancel_silent(i) ==
    /\ wst[i].pc = "select"
    /\ cancel_rx[i] = "sent"
    /\ wst' = [wst EXCEPT ![i] = DoneTask]
    /\ UNCHANGED <<appVars, cmd_q, resp_q, net, net_last, cancel_rx, message_rx, http,
                   emitted>>

\* biased select!, first arm: close requested
WsSelectCancel(i) ==
    /\ wst[i].pc = "select"
    /\ cancel_rx[i] = "sent"
    /\ wst' = [wst EXCEPT ![i] = DoneTask]
    /\ resp_q' = Send(resp_q, WebSocketClosed(i))
    /\ emitted' = Record(emitted, WebSocketClosed(i))
    /\ UNCHANGED <<appVars, cmd_q, net, net_last, cancel_rx, message_rx, http>>

\* variant: the newest queued message is taken
mpsc_recv_newest(q) == q[Len(q)]

\* message_rx.recv(): the oldest queued message
mpsc_recv(q) == Head(q)

\* biased select!, second arm: an outgoing message, written or failing
WsSelectOutgoing(i) ==
    /\ wst[i].pc = "select"
    /\ cancel_rx[i] # "sent"
    /\ message_rx[i] # <<>>
    /\ message_rx' = [message_rx EXCEPT ![i] = Tail(@)]
    /\ \/ /\ wst' = [wst EXCEPT ![i].written = Append(@, mpsc_recv(message_rx[i])),
                                 ![i].msg = None]
          /\ UNCHANGED <<resp_q, emitted>>
       \/ /\ wst' = [wst EXCEPT ![i] = DoneTask]
          /\ LET r == WebSocketError(i, <<"Send failed: ", "e">>)
             IN  /\ resp_q' = Send(resp_q, r)
                 /\ emitted' = Record(emitted, r)
    /\ UNCHANGED <<appVars, cmd_q, net, net_last, cancel_rx, http>>

\* biased select!, third arm: an inbound frame
WsSelectIncoming(i) ==
    /\ wst[i].pc = "select"
    /\ cancel_rx[i] # "sent"
    /\ message_rx[i] = <<>>
    /\ \E f \in WsFrames(wst[i].frames) :
          LET out == FrameResponses(i, f)
          IN  /\ wst' = [wst EXCEPT ![i].pc = IF FrameEnds(f) THEN "done" ELSE "select",
                                     ![i].frames = @ + 1,
                                     ![i].msg = Some(f)]
              /\ resp_q' = resp_q \o out
              /\ emitted' = [emitted EXCEPT ![i] = @ \o out]
    /\ UNCHANGED <<appVars, cmd_q, net, net_last, cancel_rx, message_rx, http>>

\* ------------------------------------------ the JoinSet after run returned
\* a task dropped by the JoinSet at an await
AbortedTask == [pc |-> "aborted"]

\* run has returned and the NetworkActor with its JoinSet is dropped: every
\* task still suspended at an await can be dropped there instead of resuming
TaskAbort(i) ==
    /\ net.stopped
    /\ \/ /\ http[i].pc \in {"req_send", "req_text", "send", "select"}
          /\ http' = [http EXCEPT ![i] = AbortedTask]
          /\ UNCHANGED wst
       \/ /\ wst[i].pc \in {"connect", "select"}
          /\ wst' = [wst EXCEPT ![i] = AbortedTask]
          /\ UNCHANGED http
    /\ UNCHANGED <<appVars, cmd_q, resp_q, net, net_last, cancel_rx, message_rx, emitted>>

\* ------------------------------------------------------------ the system
Init ==
    /\ state = AppState_new
    /\ last = [src |-> "init", kind |-> "", id |-> 0, hit |-> FALSE, again |-> FALSE]
    /\ cmd_q = <<>>
    /\ resp_q = <<>>
    /\ net = [cancel_handles |-> {}, websockets |-> {}, stopped |-> FALSE]
    /\ net_last = [kind |-> "", id |-> 0, hit |-> FALSE]
    /\ cancel_rx = [i \in Ids |-> "empty"]
    /\ message_rx = [i \in Ids |-> <<>>]
    /\ http = [i \in Ids |-> NoTask]
    /\ wst = [i \in Ids |-> NoTask]
    /\ emitted = [i \in Ids |-> <<>>]
    /\ render_tx = <<to_render_state(AppState_new)>>
    /\ running = TRUE

AppEvent == AppUiEvent(HttpEvents \cup WsEvents, FALSE)
AppHttpEvent == AppUiEvent(HttpEvents, FALSE)
AppWsEvent == AppUiEvent(WsEvents, FALSE)
AppResponse == AppNetResponse(FALSE)
NetRun == NetCommand(FALSE)
NetRunObserved == NetCommand(TRUE)

StreamTask ==
    \E i \in Ids :
        \/ StreamSendOk(i)
        \/ StreamSendErr(i)
        \/ StreamSelectCancel(i)
        \/ StreamSelectChunk(i)
        \/ StreamHandle(i)

RequestTask ==
    \E i \in Ids :
        \/ ReqSendOk(i)
        \/ ReqSendErr(i)
        \/ ReqText(i)

WsTask ==
    \E i \in Ids :
        \/ WsHandshakeOk(i)
        \/ WsHandshakeErr(i)
        \/ WsSelectCancel(i)
        \/ WsSelectOutgoing(i)
        \/ WsSelectIncoming(i)

Next ==
    \/ AppEvent
    \/ AppResponse
    \/ NetRun
    \/ StreamTask
    \/ WsTask

Spec == Init /\ [][Next]_vars

\* the HTTP side alone: the user only sends and cancels requests
NextHttp ==
    \/ AppHttpEvent
    \/ AppResponse
    \/ NetRunObserved
    \/ StreamTask

SpecHttp == Init /\ [][NextHttp]_vars

\* The runtime polls every task that can run, and both actor loops take an
\* item that waits in their channel; every network operation ends (a
\* response, a failure or the timeout), so a task that can move does move.
\* The user is free never to press a key.
NextHttpRun ==
    \/ AppHttpEvent
    \/ AppResponse
    \/ NetRun
    \/ StreamTask

FairHttp ==
    /\ WF_vars(AppResponse)
    /\ WF_vars(NetRun)
    /\ \A i \in Ids :
          WF_vars(\/ StreamSendOk(i)
                  \/ StreamSendErr(i)
                  \/ StreamSelectCancel(i)
                  \/ StreamSelectChunk(i)
                  \/ StreamHandle(i))

SpecHttpFair == Init /\ [][NextHttpRun]_vars /\ FairHttp

\* the WebSocket side alone
NextWs ==
    \/ AppWsEvent
    \/ AppResponse
    \/ NetRun
    \/ WsTask

SpecWs == Init /\ [][NextWs]_vars

\* Both loops take what waits in their channels and the runtime polls every
\* session task whose handshake has ended or whose cancel or outgoing arm
\* is ready.  The remote end is free never to send a frame, and the user
\* never to press a key.
FairWs ==
    /\ WF_vars(AppResponse)
    /\ WF_vars(NetRun)
    /\ \A i \in Ids :
          WF_vars(\/ WsHandshakeOk(i)
                  \/ WsHandshakeErr(i)
                  \/ WsSelectCancel(i)
                  \/ WsSelectOutgoing(i))

SpecWsFair == SpecWs /\ FairWs

\* --------------------------------------------- the state owner on its own
\* every response the executor's protocol allows, for minted and unminted ids
ResponsesFor(i) ==
    {Success(i, st, <<"a", "b">>, t) : st \in Statuses, t \in Elapsed}
      \cup {StreamChunk(i, c, Len(c)) : c \in TextChunks}
      \cup {StreamComplete(i, st, 4, t) : st \in Statuses, t \in Elapsed}
      \cup {Error(i, <<"request failed">>, t) : t \in Elapsed}
      \cup {Cancelled(i), WebSocketConnected(i), WebSocketClosed(i)}
      \cup {WebSocketMessage(i, m) : m \in TextFrames}
      \cup {WebSocketError(i, <<"Receive error: ", "e">>)}

EnvResponses == UNION { ResponsesFor(i) : i \in Ids }

MaxChunkLen == CHOOSE n \in {Len(t) : t \in TextChunks} : \A t \in TextChunks : Len(t) <= n

\* the executor sends some response and the state owner receives it
EnvDeliver ==
    /\ running
    /\ resp_q = <<>>
    /\ \E r \in EnvResponses :
          /\ r.kind = "StreamChunk" =>
                Len(state.streaming_body) + Len(r.chunk) <= MaxChunks * MaxChunkLen
          /\ AppApply(r, TRUE)
          /\ Len(state'.ws.messages) <= MaxLog
    /\ UNCHANGED <<resp_q, cmd_q, netVars>>

\* the executor receives the oldest command
EnvTakeCommand ==
    /\ cmd_q # <<>>
    /\ cmd_q' = Tail(cmd_q)
    /\ UNCHANGED <<appVars, resp_q, netVars>>

AppEventObserved ==
    AppUiEvent(HttpEvents \cup EditEvents \cup {Ev("WsConnect"), Ev("Quit")}, TRUE)

NextApp ==
    \/ AppEventObserved
    \/ EnvDeliver
    \/ EnvTakeCommand

SpecApp == Init /\ [][NextApp]_vars

\* -------------------- the state owner while the user works on the headers
\* The keys reach the popup alone while it is shown (key_to_ui_event), and
\* the user sends one request, the default one.
AppHeaderEvent ==
    IF state.show_curl_import
    THEN AppUiEvent(CurlEvents, FALSE)
    ELSE AppUiEvent(HeaderEvents \cup HistoryEvents \cup {Ev("ShowCurlImport")}
                       \cup (IF state.next_request_id = 1 /\ state.request = Request_default
                             THEN {Ev("SendRequest")} ELSE {}),
                    FALSE)

\* the pending request finishes: its terminal response reaches the net_rx arm
EnvFinish ==
    /\ running
    /\ resp_q = <<>>
    /\ IsSome(state.pending_request_id)
    /\ \E st \in Statuses, t \in Elapsed :
          AppApply(Success(Unwrap(state.pending_request_id), st, <<"a", "b">>, t), FALSE)
    /\ UNCHANGED <<resp_q, cmd_q, netVars>>

NextHeaders ==
    \/ AppHeaderEvent
    \/ EnvFinish
    \/ EnvTakeCommand

SpecHeaders == Init /\ [][NextHeaders]_vars

\* ------------------------------ the state owner while the user moves about
\* handle_http_tab_keys: the keys of the Normal mode move between the panels
\* and start editing in the Url, Body and Auth panels; the keys of the
\* Editing mode type, delete, move the cursor and stop editing.
AppCursorEvent ==
    IF state.input_mode = "Normal"
    THEN AppUiEvent(PanelEvents
                       \cup (IF state.active_panel \in {"Url", "Body", "Auth"}
                             THEN {Ev("StartEditing")} ELSE {}),
                    FALSE)
    ELSE AppUiEvent({Ev("StopEditing")} \cup CursorEvents \cup RequestEvents, FALSE)

NextCursor == AppCursorEvent

SpecCursor == Init /\ [][NextCursor]_vars

\* ------------------------------------- the history at every length it takes
\* the history after n requests that finished one after the other, the
\* newest first; the k-th request took k milliseconds
HistoryAfter(n) ==
    [k \in 1..n |->
        HistoryEntry(Request_default,
                     [status_code |-> Some(200), body |-> <<"a", "b">>,
                      time_ms |-> n - k + 1])]

\* n requests have finished and the next one was sent and is pending
InitHistory ==
    /\ \E n \in 0..MAX_HISTORY :
          state = prepare_streaming_request(
                      [AppState_new EXCEPT !.history = HistoryAfter(n),
                                           !.next_request_id = n + 1]).state
    /\ Init!2 /\ Init!3 /\ Init!4 /\ Init!5 /\ Init!6 /\ Init!7 /\ Init!8
    /\ Init!9 /\ Init!10 /\ Init!11
    /\ render_tx = <<to_render_state(state)>>
    /\ Init!13

\* the executor sends some response that carries the id of the latest
\* request or of the one before it, and the state owner receives it
EnvDeliverLatest ==
    /\ running
    /\ resp_q = <<>>
    /\ \E i \in {state.next_request_id - 1, state.next_request_id - 2} \ {0} :
          \E r \in ResponsesFor(i) :
              /\ r.kind = "StreamChunk" =>
                    Len(state.streaming_body) + Len(r.chunk) <= MaxChunks * MaxChunkLen
              /\ AppApply(r, TRUE)
              /\ Len(state'.ws.messages) <= MaxLog
    /\ UNCHANGED <<resp_q, cmd_q, netVars>>

NextHistory == EnvDeliverLatest

SpecHistory == InitHistory /\ [][NextHistory]_vars

\* ------------------------------------ the state owner while the user edits
AppEditEvent ==
    AppUiEvent({Ev("SendRequest"), Ev("StartEditing")} \cup RequestEvents, TRUE)

NextEdit ==
    \/ AppEditEvent
    \/ EnvDeliver
    \/ EnvTakeCommand

SpecEdit == Init /\ [][NextEdit]_vars

\* ---------------------------------------------- the executor on its own
\* The state owner is replaced by an environment that sends any command the
\* state owner can send: ids are minted in increasing order, each by one
\* ExecuteStreamingRequest or ConnectWebSocket, and the other commands name
\* ids minted before.  It takes every response as soon as it is sent: what
\* waits in the response channel has no influence on the executor.
Minted(i) ==
    \/ http[i] # NoTask
    \/ wst[i] # NoTask
    \/ \E k \in 1..Len(cmd_q) : cmd_q[k].id = i /\ cmd_q[k].kind \in MintingKinds

SendQueued(i) ==
    \E k \in 1..Len(cmd_q) : cmd_q[k].id = i /\ cmd_q[k].kind = "SendWebSocketMessage"

Written(i) == IF wst[i].pc = "select" THEN Len(wst[i].written) ELSE 0

EnvCommands ==
    {c \in {ExecuteStreamingRequest(i, Request_default) : i \in Ids}
             \cup {ConnectWebSocket(i, DEFAULT_WS_URL) : i \in Ids} :
        /\ ~Minted(c.id)
        /\ \A j \in 1..(c.id - 1) : Minted(j)}
    \cup {CancelRequest(i) : i \in {j \in Ids : Minted(j)}}
    \cup {CloseWebSocket(i) : i \in {j \in Ids : Minted(j)}}
    \cup {SendWebSocketMessage(i, <<c>>) :
             i \in {j \in Ids : /\ Minted(j)
                                /\ ~SendQueued(j)
                                /\ message_rx[j] = <<>>
                                /\ Written(j) < MaxSends},
             c \in WsChars}

EnvSendCommand ==
    /\ resp_q = <<>>
    /\ Len(cmd_q) < MaxCmdQueue
    /\ \E c \in EnvCommands : cmd_q' = Append(cmd_q, c)
    /\ UNCHANGED <<appVars, resp_q, netVars>>

EnvTakeResponse ==
    /\ resp_q # <<>>
    /\ resp_q' = Tail(resp_q)
    /\ UNCHANGED <<appVars, cmd_q, netVars>>

NextNet ==
    \/ EnvSendCommand
    \/ EnvTakeResponse
    \/ resp_q = <<>> /\ NetRun
    \/ resp_q = <<>> /\ StreamTask
    \/ resp_q = <<>> /\ WsTask

SpecNet == Init /\ [][NextNet]_vars

\* --------------------------- the executor with every command it can get
EnvExecCommands ==
    EnvCommands
        \cup {c \in {ExecuteRequest(i, Request_default) : i \in Ids} :
                 /\ ~Minted(c.id)
                 /\ \A j \in 1..(c.id - 1) : Minted(j)}
        \cup {Shutdown}

EnvSendExecCommand ==
    /\ resp_q = <<>>
    /\ Len(cmd_q) < MaxCmdQueue
    /\ \E c \in EnvExecCommands : cmd_q' = Append(cmd_q, c)
    /\ UNCHANGED <<appVars, resp_q, netVars>>

JoinSetDrop == \E i \in Ids : TaskAbort(i)

NextExec ==
    \/ EnvSendExecCommand
    \/ EnvTakeResponse
    \/ resp_q = <<>> /\ NetRun
    \/ resp_q = <<>> /\ RequestTask
    \/ resp_q = <<>> /\ StreamTask
    \/ resp_q = <<>> /\ WsTask
    \/ resp_q = <<>> /\ JoinSetDrop

SpecExec == Init /\ [][NextExec]_vars

\* ----------------------------- the executor with HTTP commands only
EnvHttpCommands ==
    {c \in EnvExecCommands :
        c.kind \in {"ExecuteRequest", "ExecuteStreamingRequest", "CancelRequest"}}

EnvSendHttpCommand ==
    /\ resp_q = <<>>
    /\ Len(cmd_q) < MaxCmdQueue
    /\ \E c \in EnvHttpCommands : cmd_q' = Append(cmd_q, c)
    /\ UNCHANGED <<appVars, resp_q, netVars>>

NextExecHttp ==
    \/ EnvSendHttpCommand
    \/ EnvTakeResponse
    \/ resp_q = <<>> /\ NetRunObserved
    \/ resp_q = <<>> /\ RequestTask
    \/ resp_q = <<>> /\ StreamTask

SpecExecHttp == Init /\ [][NextExecHttp]_vars

\* ------------------------- the state owner while the user is on the
\* WebSocket tab
AppWsEventObserved == AppUiEvent(WsEvents, TRUE)

NextAppWs ==
    \/ AppWsEventObserved
    \/ EnvDeliver
    \/ EnvTakeCommand

SpecAppWs == Init /\ [][NextAppWs]_vars

\* ------------------------- the executor with WebSocket commands only
\* The environment opens one session, with the first id, and sends and
\* closes for every id, the ids that were never opened included.
OutMessages == { <<"h">>, <<"i">> }

EnvWsCommands ==
    {c \in {ConnectWebSocket(i, DEFAULT_WS_URL) : i \in Ids} :
        \A j \in Ids : ~Minted(j) /\ c.id <= j}
    \cup {CloseWebSocket(i) : i \in Ids}
    \cup {SendWebSocketMessage(i, m) :
             i \in {j \in Ids : /\ ~SendQueued(j)
                                /\ Len(message_rx[j]) + Written(j) < MaxOutbound},
             m \in OutMessages}

EnvSendWsCommand ==
    /\ resp_q = <<>>
    /\ Len(cmd_q) < MaxCmdQueue
    /\ \E c \in EnvWsCommands : cmd_q' = Append(cmd_q, c)
    /\ UNCHANGED <<appVars, resp_q, netVars>>

NextExecWs ==
    \/ EnvSendWsCommand
    \/ EnvTakeResponse
    \/ resp_q = <<>> /\ NetRunObserved
    \/ resp_q = <<>> /\ WsTask

SpecExecWs == Init /\ [][NextExecWs]_vars

\* The runtime polls every task that can run and the executor takes every
\* command that waits; the handshake ends, a signalled close and a queued
\* message are ready arms of the select!.  The remote end is free never to
\* send a frame, and the environment never to send a command.
FairExecWs ==
    /\ WF_vars(EnvTakeResponse)
    /\ WF_vars(resp_q = <<>> /\ NetRunObserved)
    /\ \A i \in Ids :
          WF_vars(/\ resp_q = <<>>
                  /\ \/ WsHandshakeOk(i)
                     \/ WsHandshakeErr(i)
                     \/ WsSelectCancel(i)
                     \/ WsSelectOutgoing(i))

SpecExecWsFair == SpecExecWs /\ FairExecWs

\* ================================================================ properties
\* the step is the ui_rx arm handling the named event
UiStep(name) == last'.src = "ui" /\ last'.kind = name /\ AppEventObserved

\* the step is the net_rx arm applying a response of one of the kinds
NetStep(kinds) == last'.src = "net" /\ last'.kind \in kinds /\ EnvDeliver

\* C1: a SendRequest handled while an HTTP request is pending sends no
\* command, mints no id and leaves the pending id, the loading flag, the
\* request and the response as they were; a pending id is never replaced by
\* another one, so at most one HTTP request is pending at a time.
C1_SendWhilePendingIgnored ==
    /\ [][ (UiStep("SendRequest") /\ IsSome(state.pending_request_id)) =>
              /\ cmd_q' = cmd_q
              /\ ~last'.hit
              /\ state'.next_request_id = state.next_request_id
              /\ state'.pending_request_id = state.pending_request_id
              /\ state'.is_loading = state.is_loading
              /\ state'.request = state.request
              /\ state'.response = state.response ]_vars
    /\ [][ (IsSome(state.pending_request_id) /\ IsSome(state'.pending_request_id)) =>
              state'.pending_request_id = state.pending_request_id ]_vars

\* a SendRequest was just ignored while a request is pending
C1_Witness ==
    /\ last.src = "ui" /\ last.kind = "SendRequest" /\ ~last.hit
    /\ IsSome(state.pending_request_id)
    /\ state.is_loading

\* C2: an HTTP-shaped response whose id is not the pending id changes
\* nothing: the response record, the pending id, the loading flag, the
\* streaming accumulator, the byte count and the history stay as they were.
\* One whose id is the pending id is applied.
C2_StaleResponseDropped ==
    /\ [][ (NetStep(HttpKinds) /\ state.pending_request_id # Some(last'.id)) =>
              /\ ~last'.hit
              /\ state'.response = state.response
              /\ state'.pending_request_id = state.pending_request_id
              /\ state'.is_loading = state.is_loading
              /\ state'.streaming_body = state.streaming_body
              /\ state'.bytes_received = state.bytes_received
              /\ state'.history = state.history ]_vars
    /\ [][ (NetStep(HttpKinds) /\ state.pending_request_id = Some(last'.id)) =>
              /\ last'.hit
              /\ state'.response # state.response ]_vars

\* the response for id 1 was just dropped while a newer id is pending and
\* has already streamed some text
C2_Witness ==
    /\ last.src = "net" /\ last.kind \in HttpKinds /\ ~last.hit
    /\ IsSome(state.pending_request_id)
    /\ last.id < Unwrap(state.pending_request_id)
    /\ state.streaming_body # <<>>
    /\ state.history # <<>>

\* C4: a CancelRequest handled while nothing is pending sends no command
\* and changes no field of the state.
C4_CancelNothingPending ==
    [][ (UiStep("CancelRequest") /\ ~IsSome(state.pending_request_id)) =>
           /\ cmd_q' = cmd_q
           /\ ~last'.hit
           /\ state' = state ]_vars

\* a CancelRequest was just ignored after an earlier request had finished
C4_Witness ==
    /\ last.src = "ui" /\ last.kind = "CancelRequest" /\ ~last.hit
    /\ ~IsSome(state.pending_request_id)
    /\ state.next_request_id > 1

\* C9: a terminal response (Success, StreamComplete, Error) applied while its
\* id is pending clears the pending id and puts exactly one entry, made of
\* the request and the response shown, in front of the history; the same
\* response applied again right after leaves the history, and the whole
\* state, unchanged.
C9_FinalizeOncePerResponse ==
    /\ [][ (NetStep(TerminalHistoryKinds) /\ last'.hit) =>
              /\ ~IsSome(state'.pending_request_id)
              /\ ~state'.is_loading
              /\ state'.history # <<>>
              /\ Head(state'.history) = HistoryEntry(state'.request, state'.response)
              /\ Tail(state'.history) \in
                    {state.history, SubSeq(state.history, 1, Len(state.history) - 1)}
              /\ Len(state'.history) = Len(state.history) + 1
                    \/ Len(state.history) = MAX_HISTORY ]_vars
    /\ [][ (NetStep(TerminalHistoryKinds) /\ last'.again) =>
              /\ ~last'.hit
              /\ state' = state ]_vars

\* a terminal response was applied while pending and then applied again
C9_Witness ==
    /\ last.src = "net" /\ last.kind \in TerminalHistoryKinds
    /\ last.again /\ ~last.hit
    /\ Len(state.history) = 1

\* C10: the id counter starts at 1; a step changes it only by adding one,
\* and exactly when it sends an ExecuteStreamingRequest or a
\* ConnectWebSocket, which carries the old counter value as its id; a
\* rejected SendRequest or WsConnect leaves the counter alone; every id in
\* use is below the counter.
C10_IdsStrictlyIncreasing ==
    /\ state.next_request_id = 1
    /\ [][ LET n == state.next_request_id
               sent == cmd_q' # cmd_q /\ Len(cmd_q') = Len(cmd_q) + 1
                         /\ cmd_q'[Len(cmd_q')].kind \in MintingKinds
           IN  /\ state'.next_request_id \in {n, n + 1}
               /\ state'.next_request_id = n + 1 <=> sent
               /\ sent => cmd_q'[Len(cmd_q')].id = n
               /\ (AppEventObserved /\ last'.kind \in {"SendRequest", "WsConnect"}) =>
                     (last'.hit <=> sent)
               /\ IsSome(state'.pending_request_id) => Unwrap(state'.pending_request_id) <= n
               /\ IsSome(state'.ws.connection_id) => Unwrap(state'.ws.connection_id) <= n
         ]_vars

\* an HTTP request and a WebSocket session hold the ids 1 and 2 between them
\* and a further SendRequest was rejected without taking an id
C10_Witness ==
    /\ IsSome(state.pending_request_id) /\ IsSome(state.ws.connection_id)
    /\ {Unwrap(state.pending_request_id), Unwrap(state.ws.connection_id)} = {1, 2}
    /\ state.next_request_id = 3
    /\ last.kind = "SendRequest" /\ ~last.hit

\* ---------------------------------------------------- the HTTP side, closed
\* the step is the NetworkActor receiving a command of the kind
NetTakes(kind) == cmd_q # <<>> /\ Head(cmd_q).kind = kind /\ cmd_q' = Tail(cmd_q)

\* the step is the AppActor receiving the oldest response
RecvStep == resp_q # <<>> /\ resp_q' = Tail(resp_q)

HasKind(rs, kind) == \E k \in 1..Len(rs) : rs[k].kind = kind

\* Cancelled{i} was sent and the state owner has received it
CancelledApplied(i) ==
    /\ HasKind(emitted[i], "Cancelled")
    /\ \A k \in 1..Len(resp_q) : resp_q[k] # Cancelled(i)

CancelledCount(i) ==
    Cardinality({k \in 1..Len(emitted[i]) : emitted[i][k].kind = "Cancelled"})

\* C5: the executor sends at most one Cancelled{i} per id: a CancelRequest(i)
\* that finds the handle removes it and sends one Cancelled{i}; one that
\* finds no handle sends nothing and leaves the executor, its tasks, the
\* response channel and the state owner as they were.
C5_CancelIdempotent ==
    /\ [](\A i \in Ids : CancelledCount(i) <= 1)
    /\ [][ NetTakes("CancelRequest") =>
              LET i == Head(cmd_q).id
              IN  IF i \in net.cancel_handles
                  THEN /\ emitted'[i] = Append(emitted[i], Cancelled(i))
                       /\ resp_q' = Append(resp_q, Cancelled(i))
                       /\ i \notin net'.cancel_handles
                  ELSE UNCHANGED <<net, cancel_rx, message_rx, http, wst,
                                   emitted, resp_q, state>> ]_vars

\* a second CancelRequest(i) was just handled, after the first one had sent
\* Cancelled{i}
C5_Witness ==
    /\ net_last.kind = "CancelRequest" /\ ~net_last.hit
    /\ CancelledCount(net_last.id) = 1

\* C6: a streaming task waiting in its select! with the cancel signal
\* delivered moves only by returning from the cancel arm, sending nothing;
\* a task that returned from the cancel arm never sends a response again.
C6_CancelArmFirst ==
    /\ [][ \A i \in Ids :
              (http[i].pc = "select" /\ cancel_rx[i] = "sent" /\ http'[i] # http[i]) =>
                 /\ http'[i].pc = "cancelled"
                 /\ emitted'[i] = emitted[i]
                 /\ resp_q' = resp_q ]_vars
    /\ [][ \A i \in Ids :
              http[i].pc = "cancelled" =>
                 /\ http'[i] = http[i]
                 /\ emitted'[i] = emitted[i] ]_vars

\* a task that had streamed a chunk returned from the cancel arm
C6_Witness ==
    \E i \in Ids :
        /\ http[i].pc = "cancelled"
        /\ HasKind(emitted[i], "StreamChunk")
        /\ HasKind(emitted[i], "Cancelled")

\* C7 as stated: each text chunk is answered by a StreamChunk carrying the
\* cumulative byte count, and the end of the stream by a StreamComplete
\* whose total_bytes is the sum of the chunk lengths.
C7_StreamCompleteAtEnd ==
    [][ \A i \in Ids :
           (http[i].pc = "chunk" /\ http'[i].pc # "chunk") =>
              LET it == Unwrap(http[i].chunk)
                  sent == SubSeq(emitted'[i], Len(emitted[i]) + 1, Len(emitted'[i]))
              IN  /\ (it.item = "chunk" /\ IsSome(it.bytes.text)) =>
                        /\ Len(sent) = 1
                        /\ sent[1].kind = "StreamChunk"
                        /\ sent[1].bytes_received = http[i].total_bytes + it.bytes.len
                  /\ it.item = "end" =>
                        /\ Len(sent) = 1
                        /\ sent[1].kind = "StreamComplete"
                        /\ sent[1].total_bytes = http[i].total_bytes ]_vars

\* ----------------------------------------------- the WebSocket side, closed
\* the messages of the WebSocketMessage responses in rs that carry id i
RECURSIVE MessagesOf(_, _)
MessagesOf(rs, i) ==
    IF rs = <<>> THEN <<>>
    ELSE (IF Head(rs).kind = "WebSocketMessage" /\ Head(rs).id = i
          THEN <<Head(rs).message>> ELSE <<>>) \o MessagesOf(Tail(rs), i)

\* the contents of the Received entries the log holds after its last
\* "Connecting to ..." entry, oldest first
RECURSIVE ReceivedSinceConnect(_)
ReceivedSinceConnect(log) ==
    IF log = <<>> THEN <<>>
    ELSE LET e == log[Len(log)]
             front == SubSeq(log, 1, Len(log) - 1)
         IN  IF e.direction = "System" /\ Head(e.content) = "Connecting to "
             THEN <<>>
             ELSE ReceivedSinceConnect(front)
                     \o (IF e.direction = "Received" THEN <<e.content>> ELSE <<>>)

\* C8: the handshake succeeding sends WebSocketConnected{i}, and the state
\* owner receiving it for the tracked id marks the session connected; each
\* inbound text frame sends WebSocketMessage{i, text}, and the state owner
\* receiving it for the tracked id appends it to the log as Received; the
\* Received entries of the tracked session followed by its messages still
\* in the channel are the messages the task sent, in the order it sent them.
C8_WebSocketSessionLog ==
    /\ [][ \A i \in Ids :
              (wst[i].pc = "connect" /\ wst'[i].pc = "select") =>
                 /\ emitted'[i] = Append(emitted[i], WebSocketConnected(i))
                 /\ resp_q' = Append(resp_q, WebSocketConnected(i)) ]_vars
    /\ [][ (RecvStep /\ Head(resp_q).kind = "WebSocketConnected"
                     /\ state.ws.connection_id = Some(Head(resp_q).id)) =>
              /\ state'.ws.connected
              /\ state'.ws.connection_id = state.ws.connection_id ]_vars
    /\ [][ \A i \in Ids :
              (wst[i].pc = "select" /\ wst'[i] # wst[i] /\ wst'[i] # DoneTask
                 /\ wst'[i].frames = wst[i].frames + 1
                 /\ Unwrap(wst'[i].msg).frame = "Text") =>
                 LET r == WebSocketMessage(i, Unwrap(wst'[i].msg).text)
                 IN  /\ emitted'[i] = Append(emitted[i], r)
                     /\ resp_q' = Append(resp_q, r) ]_vars
    /\ [][ (RecvStep /\ Head(resp_q).kind = "WebSocketMessage"
                     /\ state.ws.connection_id = Some(Head(resp_q).id)) =>
              state'.ws.messages =
                  Append(state.ws.messages, WsLogEntry("Received", Head(resp_q).message)) ]_vars
    /\ [](\A i \in Ids :
              state.ws.connection_id = Some(i) =>
                 ReceivedSinceConnect(state.ws.messages) \o MessagesOf(resp_q, i)
                    = MessagesOf(emitted[i], i))

\* the tracked session is connected and its log shows the text frame and
\* the close notice in the order the task sent them
C8_Witness ==
    \E i \in Ids :
        /\ state.ws.connection_id = Some(i)
        /\ state.ws.connected
        /\ HasKind(emitted[i], "WebSocketConnected")
        /\ Len(ReceivedSinceConnect(state.ws.messages)) >= 2
        /\ ReceivedSinceConnect(state.ws.messages)[1] \in TextFrames
        /\ ReceivedSinceConnect(state.ws.messages) = MessagesOf(emitted[i], i)

\* ------------------------------------- NetworkResponse::id and is_terminal
\* one or two responses of any variant wait in the response channel
InitResponse ==
    /\ Init!1 /\ Init!2 /\ Init!3
    /\ resp_q \in {<<r>> : r \in EnvResponses}
                     \cup {<<r1, r2>> : r1 \in EnvResponses, r2 \in EnvResponses}
    /\ Init!5 /\ Init!6 /\ Init!7 /\ Init!8 /\ Init!9 /\ Init!10 /\ Init!11
    /\ Init!12 /\ Init!13

\* the oldest response is taken and id() and is_terminal() are applied to it
Classify ==
    /\ resp_q # <<>>
    /\ LET r == Head(resp_q)
       IN  last' = [src |-> "fn", kind |-> r.kind, id |-> NetworkResponse_id(r),
                    hit |-> is_terminal(r),
                    again |-> FALSE]
    /\ resp_q' = Tail(resp_q)
    /\ UNCHANGED <<state, render_tx, running, cmd_q, netVars>>

NextResponse == Classify

SpecResponse == InitResponse /\ [][NextResponse]_vars

AllKinds ==
    {"Success", "StreamChunk", "StreamComplete", "Error", "Cancelled",
     "WebSocketConnected", "WebSocketMessage", "WebSocketClosed", "WebSocketError"}

\* C11: for a response of any of the nine variants, id() is its id field and
\* is_terminal() is true for Success, StreamComplete, Error, Cancelled,
\* WebSocketClosed and WebSocketError, false for StreamChunk,
\* WebSocketConnected and WebSocketMessage.
C11_IdAndTerminalTotal ==
    /\ {r.kind : r \in EnvResponses} = AllKinds
    /\ [][ (resp_q # <<>> /\ resp_q' = Tail(resp_q)) =>
              LET r == Head(resp_q)
              IN  /\ last'.src = "fn"
                  /\ last'.id = r.id
                  /\ r.kind \in {"Success", "StreamComplete", "Error", "Cancelled",
                                 "WebSocketClosed", "WebSocketError"} => last'.hit
                  /\ r.kind \in {"StreamChunk", "WebSocketConnected", "WebSocketMessage"}
                        => ~last'.hit ]_vars

\* a Cancelled response for id 2 was classified as terminal after another
\* response had been classified
C11_Witness ==
    /\ last.src = "fn" /\ last.kind = "Cancelled" /\ last.id = 2 /\ last.hit
    /\ resp_q = <<>>

\* ------------------------------------------------------------- snapshots
\* the step is one turn of the AppActor loop: an event or a response
AppTurn == \/ last'.src = "ui" /\ AppEventObserved
           \/ last'.src = "net" /\ EnvDeliver

\* the snapshot shows the state s
Shows(snap, s) ==
    /\ snap.method = s.request.method
    /\ snap.input_mode = s.input_mode
    /\ snap.response = s.response
    /\ snap.response_scroll = s.response_scroll
    /\ snap.is_loading = s.is_loading
    /\ snap.history_index = s.history_index
    /\ snap.ws_url = s.ws.url
    /\ snap.ws_connected = s.ws.connected
    /\ snap.ws_messages = s.ws.messages
    /\ snap.ws_input = s.ws.input

\* C12 as stated: one initial snapshot, and every turn of the loop, for an
\* event or for a response, sends exactly one snapshot showing the state
\* after the turn.
C12_SnapshotEveryTurn ==
    /\ Len(render_tx) = 1 /\ Shows(render_tx[1], state)
    /\ [][ AppTurn => (Len(render_tx') = 1 /\ Shows(render_tx'[1], state')) ]_vars

\* C12 amended: one initial snapshot; every turn of the loop for a response
\* (accepted or dropped) and for an event other than Quit sends exactly one
\* snapshot showing the state after the turn; the turn for Quit sends
\* Shutdown to the executor and ends the loop without a snapshot.
C12_SnapshotEveryTurnButQuit ==
    /\ Len(render_tx) = 1 /\ Shows(render_tx[1], state)
    /\ [][ AppTurn =>
              IF last'.kind # "Quit"
              THEN Len(render_tx') = 1 /\ Shows(render_tx'[1], state') /\ running'
              ELSE /\ render_tx' = <<>>
                   /\ ~running'
                   /\ state' = state
                   /\ cmd_q' = Append(cmd_q, Shutdown) ]_vars
    /\ [][ ~running => UNCHANGED <<state, render_tx, running>> ]_vars

\* a stale response was just dropped while a request is loading, and the
\* snapshot sent for that turn shows the unchanged state
C12_Witness ==
    /\ last.src = "net" /\ ~last.hit /\ last.kind = "Success"
    /\ state.is_loading
    /\ Len(render_tx) = 1 /\ Shows(render_tx[1], state)

\* ------------------------------------------------- terminal responses
HttpTerminalKinds == {"Success", "StreamComplete", "Error", "Cancelled"}

\* C13 as stated: of the responses sent for one HTTP request id, at most one
\* is terminal (Success, StreamComplete, Error, Cancelled) and it is the
\* last one sent for that id.
C13_OneTerminalAndLast ==
    \A i \in Ids :
        \A k \in 1..Len(emitted[i]) :
            emitted[i][k].kind \in HttpTerminalKinds => k = Len(emitted[i])

\* C14 as stated: every terminal HTTP-shaped response applied for the
\* pending id (Success, StreamComplete, Error, Cancelled) clears the pending
\* id, resets response_scroll, the streaming accumulator and the byte
\* counter, and puts exactly one new entry in the history.
C14_EveryTerminalFinalizes ==
    [][ (NetStep(HttpTerminalKinds) /\ last'.hit) =>
           /\ ~IsSome(state'.pending_request_id)
           /\ state'.response_scroll = 0
           /\ state'.streaming_body = <<>>
           /\ state'.bytes_received = 0
           /\ Len(state'.history) = Len(state.history) + 1
           /\ Tail(state'.history) = state.history ]_vars

\* C15 as stated: the request a SendRequest puts into its command is the
\* working request; while an id is pending no step changes the working
\* request; so the request of the HistoryEntry a finalisation adds is the one
\* that was submitted.
C15_RequestFrozenWhilePending ==
    [][ /\ (/\ UiStep("SendRequest")
            /\ last'.hit)
           => cmd_q'[Len(cmd_q')].request = state'.request
        /\ IsSome(state.pending_request_id) => state'.request = state.request
        /\ Len(state'.history) > Len(state.history)
           => state'.history[1].request = state.request ]_vars

\* C16 as stated: a streaming task still awaiting the initial response when
\* its cancel signal is delivered moves only by stopping there, and sends no
\* Success or Error afterwards.
C16_CancelInterruptsSend ==
    [][ \A i \in Ids :
           (http[i].pc = "send" /\ cancel_rx[i] = "sent" /\ http'[i] # http[i]) =>
              /\ http'[i].pc = "cancelled"
              /\ emitted'[i] = emitted[i]
              /\ resp_q' = resp_q ]_vars

\* C17: under fairness, with every network operation ending, an HTTP request
\* that is pending in the state owner stops being pending: the pending id
\* returns to None and the loading flag to false, with or without a cancel.
C17_PendingEventuallyClears ==
    \A i \in Ids :
        (state.pending_request_id = Some(i))
            ~> (state.pending_request_id = None /\ ~state.is_loading)

\* a request was cancelled and another ran to its terminal response, and
\* nothing is pending
C17_Witness ==
    /\ state.pending_request_id = None
    /\ ~state.is_loading
    /\ state.next_request_id > MaxId
    /\ \E i \in Ids : HasKind(emitted[i], "Cancelled")
    /\ \E i \in Ids : ~HasKind(emitted[i], "Cancelled") /\ HasKind(emitted[i], "Success")

\* C18 as stated: the executor's maps hold only ids of tasks that are still
\* running: a streaming task or a WebSocket task that has returned has no
\* entry in the cancel-handle map or the WebSocket-session map.
C18_MapsHoldRunningTasks ==
    /\ \A i \in net.cancel_handles : http[i].pc \notin {"done", "cancelled"}
    /\ \A i \in net.websockets : wst[i].pc # "done"

\* the responses the task of id i sent itself: Cancelled comes from the
\* executor
OwnResponses(i) == SelectSeq(emitted[i], LAMBDA r : r.kind # "Cancelled")

TaskTerminalKinds == {"Success", "Error", "WebSocketClosed", "WebSocketError"}

\* C19: among the responses a streaming task or a WebSocket task sends, its
\* own terminal response (Success or Error, WebSocketClosed or
\* WebSocketError) is the last one: no StreamChunk, WebSocketConnected or
\* WebSocketMessage follows it; a WebSocket task that has returned has sent
\* exactly one terminal response.
C19_TerminalIsLast ==
    /\ \A i \in Ids :
          LET own == OwnResponses(i)
          IN  \A k \in 1..Len(own) : own[k].kind \in TaskTerminalKinds => k = Len(own)
    /\ \A i \in Ids :
          wst[i].pc = "done" =>
             LET own == OwnResponses(i)
             IN  /\ own # <<>>
                 /\ own[Len(own)].kind \in {"WebSocketClosed", "WebSocketError"}
                 /\ Cardinality({k \in 1..Len(own) : own[k].kind \in TaskTerminalKinds}) = 1

\* a streaming task ended after a chunk and a WebSocket task after a message
C19_Witness ==
    \E i, j \in Ids :
        /\ http[i].pc = "done"
        /\ HasKind(emitted[i], "StreamChunk")
        /\ HasKind(emitted[i], "Success")
        /\ wst[j].pc = "done"
        /\ HasKind(emitted[j], "WebSocketConnected")
        /\ HasKind(emitted[j], "WebSocketMessage")
        /\ HasKind(emitted[j], "WebSocketClosed")

\* C20 as stated: in a streaming task that was not cancelled, the handling
\* of every chunk the network delivered sends exactly one StreamChunk, so
\* the StreamChunk responses are as many as the chunks received.
C20_OneStreamChunkPerChunk ==
    [][ \A i \in Ids :
           (/\ http[i].pc = "chunk"
            /\ Unwrap(http[i].chunk).item = "chunk"
            /\ ~HasKind(emitted[i], "Cancelled")
            /\ http'[i] # http[i]) =>
              /\ Len(emitted'[i]) = Len(emitted[i]) + 1
              /\ emitted'[i][Len(emitted'[i])].kind = "StreamChunk" ]_vars

\* C21: a buffered request task sends nothing while it awaits the response
\* or the body, and once it has returned exactly one response was sent for
\* its id, a Success or an Error, whichever way it ended (send failure,
\* body-read failure, success).
C21_BufferedOneTerminal ==
    \A i \in Ids :
        /\ http[i].pc \in {"req_send", "req_text"} => emitted[i] = <<>>
        /\ http[i].pc = "req_done" =>
              /\ Len(emitted[i]) = 1
              /\ emitted[i][1].kind \in {"Success", "Error"}
              /\ emitted[i][1].id = i

\* one buffered request ended in Success and another in Error
C21_Witness ==
    \E i, j \in Ids :
        /\ http[i].pc = "req_done" /\ HasKind(emitted[i], "Success")
        /\ http[j].pc = "req_done" /\ HasKind(emitted[j], "Error")

\* the step is the executor taking the command at the head of its queue
NetTakesHead(kind) ==
    /\ cmd_q # <<>>
    /\ Head(cmd_q).kind = kind
    /\ cmd_q' = Tail(cmd_q)
    /\ net_last' = [kind |-> kind, id |-> Head(cmd_q).id, hit |-> NetHit(Head(cmd_q))]

\* C22: a CancelRequest(id) makes the executor send Cancelled{id} exactly
\* when a cancel handle is registered for id, and otherwise sends nothing
\* and leaves the executor's maps, signals and tasks alone; a handle is
\* added only by an ExecuteStreamingRequest, for its own id and together
\* with the spawn of its task, so a buffered request never has one.
C22_CancelledIffHandle ==
    /\ [][ NetTakesHead("CancelRequest") =>
              LET id == Head(cmd_q).id
              IN  IF id \in net.cancel_handles
                  THEN /\ resp_q' = Append(resp_q, Cancelled(id))
                       /\ emitted'[id] = Append(emitted[id], Cancelled(id))
                  ELSE UNCHANGED <<resp_q, net, cancel_rx, message_rx, http, wst, emitted>>
         ]_vars
    /\ [][ net'.cancel_handles \ net.cancel_handles # {} =>
              /\ NetTakesHead("ExecuteStreamingRequest")
              /\ net'.cancel_handles = net.cancel_handles \cup {Head(cmd_q).id}
              /\ http'[Head(cmd_q).id].pc = "send" ]_vars
    /\ [][ \A i \in Ids :
              http[i].pc \in {"req_send", "req_text", "req_done"} =>
                 i \notin net'.cancel_handles ]_vars

\* a CancelRequest for a buffered request that is still running found no
\* handle, and one for a streaming request found its handle
C22_Witness ==
    /\ net_last.kind = "CancelRequest"
    /\ ~net_last.hit
    /\ http[net_last.id].pc \in {"req_send", "req_text"}
    /\ emitted[net_last.id] = <<>>
    /\ \E j \in Ids : HasKind(emitted[j], "Cancelled")

\* the StreamChunk responses of id i the state owner has taken from the
\* response channel: those sent, less those still waiting in the channel
AcceptedChunks(i) ==
    LET sent == SelectSeq(emitted[i], LAMBDA r : r.kind = "StreamChunk")
        waiting == SelectSeq(resp_q, LAMBDA r : r.kind = "StreamChunk" /\ r.id = i)
    IN  SubSeq(sent, 1, Len(sent) - Len(waiting))

RECURSIVE ConcatChunks(_)
ConcatChunks(rs) == IF rs = <<>> THEN <<>> ELSE Head(rs).chunk \o ConcatChunks(Tail(rs))

\* C23: while a streaming request is pending, the accumulator is the
\* concatenation, in arrival order, of the texts of the StreamChunk responses
\* accepted for the pending id, and the received-byte counter is the
\* bytes_received of the last of them (0 before the first).
C23_AccumulatorIsChunksInOrder ==
    \A i \in Ids :
        state.pending_request_id = Some(i) =>
            LET acc == AcceptedChunks(i)
            IN  /\ state.streaming_body = ConcatChunks(acc)
                /\ state.bytes_received =
                      IF acc = <<>> THEN 0 ELSE acc[Len(acc)].bytes_received

\* two chunks were accepted for the pending id after an earlier request ended
C23_Witness ==
    \E i \in Ids :
        /\ state.pending_request_id = Some(i)
        /\ i > 1
        /\ Len(AcceptedChunks(i)) = MaxChunks
        /\ AcceptedChunks(i)[1].chunk # AcceptedChunks(i)[2].chunk

\* C24: taking Shutdown, the executor fires the signal of every id that has
\* a cancel handle or a WebSocket session, empties both maps and leaves its
\* loop; afterwards it takes no command: what is queued behind Shutdown
\* stays in the queue and the maps stay empty.
C24_ShutdownFiresAllAndStops ==
    /\ [][ (/\ cmd_q # <<>>
            /\ Head(cmd_q).kind = "Shutdown"
            /\ cmd_q' = Tail(cmd_q)) =>
              /\ \A i \in net.cancel_handles \cup net.websockets : cancel_rx'[i] = "sent"
              /\ \A i \in Ids \ (net.cancel_handles \cup net.websockets) :
                    cancel_rx'[i] = cancel_rx[i]
              /\ net'.cancel_handles = {}
              /\ net'.websockets = {}
              /\ net'.stopped
              /\ UNCHANGED <<resp_q, emitted, message_rx>> ]_vars
    /\ [][ net.stopped =>
              /\ net' = net
              /\ cancel_rx' = cancel_rx
              /\ message_rx' = message_rx
              /\ \A k \in 1..Len(cmd_q) : cmd_q'[k] = cmd_q[k] ]_vars

\* Shutdown was taken while a streaming request and a WebSocket session were
\* registered, both got their signal, and a command that came later waits
C24_Witness ==
    /\ net.stopped
    /\ cmd_q # <<>>
    /\ \E i, j \in Ids :
          /\ http[i].pc \in {"send", "select", "chunk"}
          /\ cancel_rx[i] = "sent"
          /\ ~HasKind(emitted[i], "Cancelled")
          /\ wst[j].pc \in {"connect", "select"}
          /\ cancel_rx[j] = "sent"

\* C25: handling Quit, the state owner sends one Shutdown, changes nothing
\* in its state, pushes no snapshot and leaves its loop; no Shutdown is sent
\* before; afterwards it sends no command, applies no event and no response,
\* and pushes no snapshot: Shutdown is the last command it sends.
C25_QuitSendsShutdownLast ==
    /\ [][ UiStep("Quit") =>
              /\ Len(cmd_q') = Len(cmd_q) + 1
              /\ SubSeq(cmd_q', 1, Len(cmd_q)) = cmd_q
              /\ cmd_q'[Len(cmd_q')].kind = "Shutdown"
              /\ state' = state
              /\ render_tx' = <<>>
              /\ running /\ ~running' ]_vars
    /\ [][ running' => \A k \in 1..Len(cmd_q') : cmd_q'[k].kind # "Shutdown" ]_vars
    /\ [][ ~running =>
              /\ UNCHANGED <<state, last, render_tx, running, resp_q>>
              /\ Len(cmd_q') <= Len(cmd_q) ]_vars

\* Quit was handled while a request was pending, and the Shutdown it sent
\* has been taken from the command channel
C25_Witness ==
    /\ ~running
    /\ last.kind = "Quit"
    /\ IsSome(state.pending_request_id)
    /\ cmd_q = <<>>

\* the step is the ui_rx arm handling the WebSocket event of that name
WsUiStep(name) == last'.src = "ui" /\ last'.kind = name /\ AppWsEventObserved

\* C26: a WsConnect handled while connected, a WsSend handled while not
\* connected and a WsDisconnect handled with no tracked connection id each
\* send no command, mint no id, append nothing to the session log and leave
\* the whole state as it was.
C26_WsPreconditionNoOps ==
    [][ (\/ WsUiStep("WsConnect") /\ state.ws.connected
         \/ WsUiStep("WsSend") /\ ~state.ws.connected
         \/ WsUiStep("WsDisconnect") /\ state.ws.connection_id = None) =>
           /\ cmd_q' = cmd_q
           /\ ~last'.hit
           /\ state'.next_request_id = state.next_request_id
           /\ state'.ws.messages = state.ws.messages
           /\ state' = state ]_vars

\* a WsSend with text typed was rejected because the session, though
\* requested, is not connected yet
C26_Witness ==
    /\ last.src = "ui" /\ last.kind = "WsSend" /\ ~last.hit
    /\ ~state.ws.connected
    /\ IsSome(state.ws.connection_id)
    /\ state.ws.input # <<>>

WsKinds == {"WebSocketConnected", "WebSocketMessage", "WebSocketClosed", "WebSocketError"}

\* C27: a WebSocket response is applied only when its id is the tracked
\* connection id: then one entry is appended to the session log, Connected
\* sets the connected flag, a message leaves id and flag alone, and Closed
\* or Error clears the connection id and the connected flag; a WebSocket
\* response with any other id leaves the whole state as it was.
C27_WsResponseByConnectionId ==
    [][ NetStep(WsKinds) =>
           IF state.ws.connection_id = Some(last'.id)
           THEN /\ last'.hit
                /\ Len(state'.ws.messages) = Len(state.ws.messages) + 1
                /\ SubSeq(state'.ws.messages, 1, Len(state.ws.messages)) = state.ws.messages
                /\ last'.kind \in {"WebSocketClosed", "WebSocketError"} =>
                      /\ state'.ws.connection_id = None
                      /\ ~state'.ws.connected
                /\ last'.kind = "WebSocketConnected" =>
                      /\ state'.ws.connection_id = state.ws.connection_id
                      /\ state'.ws.connected
                /\ last'.kind = "WebSocketMessage" =>
                      /\ state'.ws.connection_id = state.ws.connection_id
                      /\ state'.ws.connected = state.ws.connected
           ELSE /\ ~last'.hit
                /\ state' = state ]_vars

\* the session of id 2 is open and a WebSocketClosed of the earlier session
\* was dropped
C27_Witness ==
    /\ last.src = "net" /\ last.kind = "WebSocketClosed" /\ ~last.hit
    /\ IsSome(state.ws.connection_id)
    /\ Unwrap(state.ws.connection_id) > last.id
    /\ state.ws.connected

\* C28 as stated: every WebSocket session the executor holds whose task is
\* still connecting or open has the id the state owner tracks, or a
\* CloseWebSocket for it is on its way: no session runs that the state owner
\* can no longer close.
C28_NoOrphanSession ==
    \A i \in net.websockets :
        wst[i].pc \in {"connect", "select"} =>
            \/ state.ws.connection_id = Some(i)
            \/ \E k \in 1..Len(cmd_q) : cmd_q[k] = CloseWebSocket(i)

\* C29: a SendWebSocketMessage or a CloseWebSocket whose id has no session
\* in the executor sends no response and leaves the session map, the
\* signals, the outbound queues and the tasks as they were; so a second
\* CloseWebSocket for an id does nothing.
C29_MissingSessionNoOp ==
    [][ (/\ \/ NetTakesHead("SendWebSocketMessage")
            \/ NetTakesHead("CloseWebSocket")
         /\ Head(cmd_q).id \notin net.websockets) =>
           /\ ~net_last'.hit
           /\ UNCHANGED <<resp_q, net, cancel_rx, message_rx, http, wst, emitted>> ]_vars

\* a second CloseWebSocket for a session found nothing, while the task had
\* not yet seen the signal of the first
C29_Witness ==
    /\ net_last.kind = "CloseWebSocket"
    /\ ~net_last.hit
    /\ cancel_rx[net_last.id] = "sent"
    /\ wst[net_last.id].pc = "select"

\* C30: the messages of the SendWebSocketMessage commands for one session
\* are queued in the order the executor takes the commands and written to
\* the socket from the front of the queue, one write per message: what was
\* written followed by what is queued is what was received, in order.
C30_OutboundInOrder ==
    /\ [][ (/\ NetTakesHead("SendWebSocketMessage")
            /\ Head(cmd_q).id \in net.websockets) =>
              message_rx' = [message_rx EXCEPT
                                ![Head(cmd_q).id] = Append(@, Head(cmd_q).message)] ]_vars
    /\ [][ \A i \in Ids :
              (wst[i].pc = "select" /\ wst'[i].pc = "select"
                   /\ wst'[i].written # wst[i].written) =>
                 /\ message_rx[i] # <<>>
                 /\ wst'[i].written = Append(wst[i].written, Head(message_rx[i]))
                 /\ message_rx'[i] = Tail(message_rx[i]) ]_vars
    /\ [][ \A i \in Ids :
              message_rx'[i] # message_rx[i] =>
                 \/ /\ NetTakesHead("SendWebSocketMessage") /\ Head(cmd_q).id = i
                 \/ /\ NetTakesHead("ConnectWebSocket") /\ Head(cmd_q).id = i
                 \/ /\ wst[i].pc = "select"
                    /\ message_rx'[i] = Tail(message_rx[i]) ]_vars

\* two different messages were written to one session, in the order sent
C30_Witness ==
    \E i \in Ids :
        /\ wst[i].pc = "select"
        /\ Len(wst[i].written) = MaxOutbound
        /\ wst[i].written[1] # wst[i].written[2]

\* the n-th message sent to session i has reached the queue of its open task
QueuedInOpenSession(i, n) ==
    /\ wst[i].pc = "select"
    /\ cancel_rx[i] # "sent"
    /\ Len(wst[i].written) + Len(message_rx[i]) >= n

\* the n-th message was written to the socket of session i
WrittenToSocket(i, n) ==
    /\ "written" \in DOMAIN wst[i]
    /\ Len(wst[i].written) >= n

\* C31 as stated: a message sent to a connected session is eventually
\* written to its socket unless the session ends with an error, also when a
\* close for the session follows the send.
C31_SentEventuallyWritten ==
    \A i \in Ids : \A n \in 1..MaxOutbound :
        QueuedInOpenSession(i, n)
            ~> (WrittenToSocket(i, n) \/ HasKind(emitted[i], "WebSocketError"))

\* the responses of session i that report a failed handshake
HandshakeErrors(i) ==
    {k \in 1..Len(emitted[i]) :
        /\ emitted[i][k].kind = "WebSocketError"
        /\ Head(emitted[i][k].error) = "Connection failed: "}

\* C32: a session whose handshake failed has emitted exactly one response,
\* a terminal WebSocketError for its own id; it never emitted
\* WebSocketConnected and its task has returned.
C32_HandshakeFailureOneError ==
    \A i \in Ids :
        HandshakeErrors(i) # {} =>
            /\ Len(emitted[i]) = 1
            /\ emitted[i][1].kind = "WebSocketError"
            /\ emitted[i][1].id = i
            /\ is_terminal(emitted[i][1])
            /\ ~HasKind(emitted[i], "WebSocketConnected")
            /\ wst[i].pc = "done"

\* a failed handshake whose session was afterwards told to close: the
\* task is gone and the signal is never answered
C32_Witness ==
    \E i \in Ids :
        /\ HandshakeErrors(i) # {}
        /\ cancel_rx[i] = "sent"
        /\ resp_q = <<>>

\* the text of the notice the task sends for the close frame f
CloseNotice(f) ==
    <<"[Closed: ">>
        \o (IF f.reason = <<>> THEN <<"Connection closed">> ELSE f.reason[1])
        \o <<"]">>

\* the response r is the close notice of session i
IsCloseNotice(r, i) ==
    /\ r.kind = "WebSocketMessage"
    /\ r.id = i
    /\ Head(r.message) = "[Closed: "

\* the step is the task of session i reading a close frame
ReadsCloseFrame(i) ==
    /\ wst[i].pc = "select"
    /\ wst'[i].pc = "done"
    /\ wst'[i] # DoneTask
    /\ Unwrap(wst'[i].msg).frame = "Close"

\* C33: a task that reads a close frame sends the close notice as a
\* WebSocketMessage and then WebSocketClosed, next to each other and in that
\* order, and returns: it sends nothing afterwards.  The state owner applies
\* the two in that order: the notice, for the tracked id, appends a Received
\* entry to the log, and WebSocketClosed, for the tracked id, appends the
\* System entry "Connection closed" and clears the connection id and the
\* connected flag.
C33_CloseFrameNoticeThenClosed ==
    /\ [][ \A i \in Ids :
              ReadsCloseFrame(i) =>
                 LET out == <<WebSocketMessage(i, CloseNotice(Unwrap(wst'[i].msg))),
                              WebSocketClosed(i)>>
                 IN  /\ emitted'[i] = emitted[i] \o out
                     /\ resp_q' = resp_q \o out ]_vars
    /\ [][ \A i \in Ids : wst[i].pc = "done" => emitted'[i] = emitted[i] ]_vars
    /\ [](\A i \in Ids : \A k \in 1..Len(resp_q) :
              IsCloseNotice(resp_q[k], i) =>
                 /\ k < Len(resp_q)
                 /\ resp_q[k + 1] = WebSocketClosed(i))
    /\ [][ \A i \in Ids :
              (RecvStep /\ IsCloseNotice(Head(resp_q), i)
                        /\ state.ws.connection_id = Some(i)) =>
                 /\ state'.ws.messages =
                       Append(state.ws.messages,
                              WsLogEntry("Received", Head(resp_q).message))
                 /\ state'.ws.connection_id = Some(i) ]_vars
    /\ [][ (RecvStep /\ Head(resp_q).kind = "WebSocketClosed"
                     /\ state.ws.connection_id = Some(Head(resp_q).id)) =>
              /\ state'.ws.messages =
                    Append(state.ws.messages,
                           WsLogEntry("System", <<"Connection closed">>))
              /\ state'.ws.connection_id = None
              /\ ~state'.ws.connected ]_vars

\* a task returned after a close frame, and the log of the state owner, who
\* tracked the session, ends with the notice and "Connection closed"
C33_Witness ==
    \E i \in Ids :
        /\ wst[i].pc = "done"
        /\ wst[i] # DoneTask
        /\ Unwrap(wst[i].msg).frame = "Close"
        /\ resp_q = <<>>
        /\ state.ws.connection_id = None
        /\ ~state.ws.connected
        /\ Len(state.ws.messages) >= 2
        /\ LET n == Len(state.ws.messages)
           IN  /\ state.ws.messages[n] = WsLogEntry("System", <<"Connection closed">>)
               /\ state.ws.messages[n - 1] =
                     WsLogEntry("Received", CloseNotice(Unwrap(wst[i].msg)))

\* CloseWebSocket(i) is on its way from the state owner to the executor
CloseIssued(i) == \E k \in 1..Len(cmd_q) : cmd_q[k] = CloseWebSocket(i)

\* the task of session i has sent a terminal response
TerminalEmitted(i) == \E k \in 1..Len(emitted[i]) : is_terminal(emitted[i][k])

\* C34 as stated: after CloseWebSocket(i) is issued, a terminal response for
\* i is eventually sent and the state owner eventually tracks no connection
\* id and is not connected.
C34_CloseEventuallyClearsSession ==
    \A i \in Ids :
        /\ CloseIssued(i) ~> TerminalEmitted(i)
        /\ CloseIssued(i) ~> (state.ws.connection_id = None /\ ~state.ws.connected)

\* C34 amended: after CloseWebSocket(i) is issued, a terminal response for i
\* is eventually sent and the state owner eventually stops tracking i: its
\* connection id is None with connected = false, or it is the id of a
\* session opened by a later WsConnect.
C34_CloseEventuallyUntracksSession ==
    \A i \in Ids :
        /\ CloseIssued(i) ~> TerminalEmitted(i)
        /\ CloseIssued(i) ~>
              \/ state.ws.connection_id = None /\ ~state.ws.connected
              \/ /\ IsSome(state.ws.connection_id)
                 /\ Unwrap(state.ws.connection_id) > i

\* the close of session i was issued while it was connecting; the task
\* opened the socket, closed it again and the state owner, still tracking
\* i, applied WebSocketConnected and WebSocketClosed
C34_Witness ==
    \E i \in Ids :
        /\ emitted[i] = <<WebSocketConnected(i), WebSocketClosed(i)>>
        /\ resp_q = <<>>
        /\ state.ws.connection_id = None
        /\ ~state.ws.connected
        /\ Len(state.ws.messages) >= 3
        /\ LET n == Len(state.ws.messages)
           IN  /\ state.ws.messages[n] = WsLogEntry("System", <<"Connection closed">>)
               /\ state.ws.messages[n - 1] = WsLogEntry("System", <<"Connected!">>)
               /\ state.ws.messages[n - 2] = WsLogEntry("System", <<"Disconnecting...">>)

\* C35: in every state of the state owner, is_loading is true exactly when
\* pending_request_id is set.
C35_LoadingIffPending == state.is_loading <=> IsSome(state.pending_request_id)

\* a request was finalized by its terminal response, and a later
\* SendRequest made the next id pending and set the loading flag
C35_Witness ==
    /\ state.history # <<>>
    /\ last.src = "ui"
    /\ last.kind = "SendRequest"
    /\ state.is_loading
    /\ state.pending_request_id = Some(2)

\* the step is the state owner unwinding from a panic: the loop ends
\* without the Shutdown command that Quit sends
PanicStep == running /\ ~running' /\ cmd_q' = cmd_q

\* C36 as stated: whenever the request has headers, selected_header is an
\* index into them, and no DeleteHeader removes at an index out of range.
C36_SelectedHeaderInRange ==
    /\ [](state.request.headers # <<>> =>
             state.selected_header < Len(state.request.headers))
    /\ [][ ~PanicStep ]_vars

\* C37 as stated: cursor_position never exceeds the length of the focused
\* input field, and no CursorLeft, CursorRight or Backspace slices the
\* field out of range.
C37_CursorWithinInput ==
    /\ [](state.cursor_position <= Len(current_input(state)))
    /\ [][ ~PanicStep ]_vars

\* C38: the pending request id and the tracked connection id differ when
\* both are set, and each of them is below next_request_id.
C38_PendingAndSessionIdsDistinct ==
    /\ (IsSome(state.pending_request_id) /\ IsSome(state.ws.connection_id))
          => state.pending_request_id # state.ws.connection_id
    /\ IsSome(state.pending_request_id)
          => Unwrap(state.pending_request_id) < state.next_request_id
    /\ IsSome(state.ws.connection_id)
          => Unwrap(state.ws.connection_id) < state.next_request_id

\* a request is pending and a session is tracked at the same time, both
\* ids minted by the one counter
C38_Witness ==
    /\ IsSome(state.pending_request_id)
    /\ IsSome(state.ws.connection_id)
    /\ state.next_request_id = 3

\* C39: while the connected flag is set a connection id is tracked, and the
\* flag goes from false to true only when the state owner applies a
\* WebSocketConnected response whose id is the tracked id.
C39_ConnectedOnlyByMatchingResponse ==
    /\ [](state.ws.connected => IsSome(state.ws.connection_id))
    /\ [][ (~state.ws.connected /\ state'.ws.connected) =>
              /\ last'.src = "net"
              /\ last'.kind = "WebSocketConnected"
              /\ state.ws.connection_id = Some(last'.id)
              /\ state'.ws.connection_id = state.ws.connection_id ]_vars

\* the session is connected by the response for the tracked id, after a
\* WsDisconnect that left the id tracked
C39_Witness ==
    /\ state.ws.connected
    /\ last.src = "net"
    /\ last.kind = "WebSocketConnected"
    /\ state.ws.connection_id = Some(last.id)
    /\ \E k \in 1..Len(state.ws.messages) :
          state.ws.messages[k] = WsLogEntry("System", <<"Disconnecting...">>)

\* a step of the net_rx arm that finalizes the pending request
FinalizeStep ==
    /\ last'.src = "net"
    /\ last'.kind \in TerminalHistoryKinds
    /\ last'.hit
    /\ EnvDeliverLatest

\* C40: the history never holds more than MAX_HISTORY entries; a finalized
\* request is put at the front; with room left every older entry moves
\* one place back, and from a full history the oldest entry alone is
\* dropped, the others keeping their order.
C40_HistoryBoundedNewestFirst ==
    /\ [](Len(state.history) <= MAX_HISTORY)
    /\ [][ FinalizeStep =>
              LET old == state.history
                  new == state'.history
              IN  /\ new[1] = HistoryEntry(state'.request, state'.response)
                  /\ Len(new) = IF Len(old) < MAX_HISTORY THEN Len(old) + 1
                                ELSE MAX_HISTORY
                  /\ \A k \in 2..Len(new) : new[k] = old[k - 1] ]_vars
    /\ [][ state'.history # state.history =>
              FinalizeStep ]_vars

\* a request was finalized into a full history: the entry of the first
\* request is gone and the entry of the second one is the oldest
C40_Witness ==
    /\ last.src = "net"
    /\ last.kind \in TerminalHistoryKinds
    /\ last.hit
    /\ Len(state.history) = MAX_HISTORY
    /\ state.next_request_id = MAX_HISTORY + 2
    /\ state.history[MAX_HISTORY].response.time_ms = 2
    /\ state.history[2].response.time_ms = MAX_HISTORY

============================================================================
